---- MODULE Spec2Model ----
(***************************************************************************)
(* Verification model of the P2P file sharing repository.                  *)
(*                                                                         *)
(* Three programs of the repository are modelled, each with its own        *)
(* specification over its own group of variables:                          *)
(*                                                                         *)
(*   SpecTM / SpecTMOpen  the chunked transfer coordinator,                *)
(*                        src/hooks/use-transfer-manager.ts                *)
(*   SpecSig / SpecRelay  the SignalingServer class (peer registry, share  *)
(*                        directory, relay, sweeper), src/unnamed/part_002;*)
(*                        SpecRelay is its registry and relay alone        *)
(*   SpecHub              the room-based signaling server,                 *)
(*                        src/unnamed/part_003                             *)
(*                                                                         *)
(* JavaScript runs every handler and timer callback to completion, so one  *)
(* handler invocation is one atomic action.                                *)
(***************************************************************************)
EXTENDS Integers, Sequences, FiniteSets, Bags, TLC

VARIABLES
  \* ---- use-transfer-manager.ts ----
  transfersRef,          \* Map transferId -> Transfer (live transfers)
  completedTransfers,    \* history, newest first
  activeTransfers,       \* React state: ids of the transfers listed as active
  speedCalculationRef,   \* Map transferId -> samples (bytes) of the speed window
  timers,                \* pending setTimeout callbacks (a bag)
  issued,                \* number of transfer ids generated so far
  now,                   \* the clock the timers run on, in ms
  \* ---- part_002, class SignalingServer ----
  peers,                 \* Map peerId -> { ws, region, lastSeen, files }
  fileShares,            \* Map shareId -> { peerId, metadata, created }
  sockets,               \* the WebSocket objects: readyState and ws.peerId
  sent,                  \* what the last handler put on the wire
  received,              \* the discover-peers or heartbeat the step served
  \* ---- part_003 ----
  hubPeers,              \* Map peerId -> { ws, lastSeen }
  hubRooms,              \* Map roomId -> Set of peer ids
  hubConns,              \* per connection: readyState, peerId, currentRoom
  hubSent,               \* what the last handler put on the wire
  \* ---- scripts/signaling-server.js ----
  ssPeers,               \* Map peerId -> { ws, connectedAt, rooms }
  ssRooms,               \* Map roomId -> Set of peer ids, in insertion order
  ssConns,               \* readyState of every WebSocket
  ssSent,                \* what the step put on the wire
  ssReceived,            \* the event the step served
  ssSilent,              \* sockets that sent nothing for more than 5 minutes
  \* ---- hooks/use-file-processor.ts ----
  fpStage,               \* how far the chunk has come
  fpChunk,               \* the bytes of the chunk
  fpKey,                 \* the encryption key of the file
  fpData,                \* the ArrayBuffer encryptChunk returned
  fpCorrupted,           \* whether a byte of fpData was changed
  fpOut,                 \* the bytes decryptChunk returned
  \* ---- hooks/use-p2p-network.ts ----
  channels,              \* peersRef in insertion order: dataChannel.readyState
  downloadCallbacks,     \* the share ids a download callback is registered for
  dlShareId,             \* downloadFile's shareId
  dlPromise,             \* the promise downloadFile returned
  dlError,               \* the error the promise was rejected with
  dlFileRequest,         \* the peer a file-request is waiting for its answer at
  dlTotalChunks,         \* downloadFile's totalChunks
  dlReceivedChunks,      \* downloadFile's receivedChunks
  dlChunks,              \* the keys of downloadFile's chunks map
  dlRequested,           \* per peer: the chunk requests not yet answered
  dlTimer,               \* whether downloadFile's 30 s timer is pending
  dlElapsed,             \* ms since downloadFile was called
  dlQuiet,               \* ms since the download callback last ran
  \* ---- the chunk envelope of hooks/use-p2p-network.ts ----
  envStage,              \* how far the chunk has come
  envShareId,            \* the share id of the chunk request
  envChunkIndex,         \* the chunk index of the chunk request
  envChunkData,          \* the bytes of the chunk
  envMessage,            \* the ArrayBuffer handleChunkRequest sent
  envDecoded,            \* what handleDataChannelMessage read from it
  \* ---- part_002, the registry in the order of its Map ----
  rkPeers,               \* the entries of this.peers, in insertion order
  rkNow,                 \* Date.now(), in ms
  rkList,                \* the last peer-list answer and its requester
  \* ---- hooks/use-p2p-network.ts, calls of downloadFile for one share ----
  ddChannel,             \* dataChannel.readyState of the only peer
  ddCallback,            \* the call whose callback downloadCallbacks holds
                         \* under the share id, NoCall when there is none
  ddHandlers,            \* the calls whose onmessage wrappers are chained
  ddPromise,             \* call -> "none", "pending", "resolved", "rejected"
  ddError,               \* call -> the Error its promise was rejected with
  ddTimer,               \* call -> "none", "armed", "fired"
  ddTotalChunks,         \* call -> totalChunks of its closure
  ddReceivedChunks,      \* call -> receivedChunks of its closure
  \* ---- part_006, the useP2PNetwork hook and its signaling socket ----
  rcMounted,             \* "no", "mounted", "unmounted"
  rcSockets,             \* readyState of every WebSocket the hook made,
                         \* in the order made; wsRef.current is the last
  rcTimers               \* reconnect timers armed and not yet fired

tmVars == <<transfersRef, completedTransfers, activeTransfers,
            speedCalculationRef, timers, issued, now>>
sigVars == <<peers, fileShares, sockets, sent, received>>
hubVars == <<hubPeers, hubRooms, hubConns, hubSent>>

ssVars == <<ssPeers, ssRooms, ssConns, ssSent, ssReceived, ssSilent>>

fpVars == <<fpStage, fpChunk, fpKey, fpData, fpCorrupted, fpOut>>

dlVars == <<channels, downloadCallbacks, dlShareId, dlPromise, dlError,
            dlFileRequest, dlTotalChunks, dlReceivedChunks, dlChunks,
            dlRequested, dlTimer, dlElapsed, dlQuiet>>

envVars == <<envStage, envShareId, envChunkIndex, envChunkData, envMessage,
             envDecoded>>

rkVars == <<rkPeers, rkNow, rkList>>

ddVars == <<ddChannel, ddCallback, ddHandlers, ddPromise, ddError, ddTimer,
            ddTotalChunks, ddReceivedChunks>>

\* the variables of the sub-models below the chunk envelope
rcVars == <<rcMounted, rcSockets, rcTimers>>

moreVars == <<rkVars, ddVars, rcVars>>

vars == <<tmVars, sigVars, hubVars, ssVars, fpVars, dlVars, envVars, moreVars>>

\* ------------------------------------------------------------------------
\* Bounds of the model
\* ------------------------------------------------------------------------
\* SpecTM: transfers created, chunks created over all transfers, timers
\* pending at once, chunk failures reported per transfer
TMTransfers == 1
TMChunks == 3
TMTimers == 4
TMFailures == 3
\* SpecTMOpen: the same four
OpenTransfers == 1
OpenChunks == 1
OpenTimers == 2
OpenFailures == 1
\* samples kept in a speed window
MaxWindow == 1

\* ------------------------------------------------------------------------
\* Program constants
\* ------------------------------------------------------------------------
MaxAttempts == 3
HistoryKeep == 49

Min(a, b) == IF a < b THEN a ELSE b

\* ========================================================================
\*  use-transfer-manager.ts
\* ========================================================================

FileSizes == {7}
ChunkStatuses == {"pending", "downloading", "completed", "failed"}

\* generateTransferId draws 64 random bits; modelled as an id never issued
\* before (the next of TransferIds).
generateTransferId == issued + 1

\* chunk sizes with the quotient rounded up instead of down
ChunkSizeCeil(fileSize, totalChunks, index) ==
  LET ceil == (fileSize + totalChunks - 1) \div totalChunks
  IN IF index = totalChunks - 1 THEN fileSize - index * ceil ELSE ceil

\* size of chunk `index` as createTransfer computes it
ChunkSize(fileSize, totalChunks, index) ==
  IF index = totalChunks - 1
    THEN fileSize - index * (fileSize \div totalChunks)
    ELSE fileSize \div totalChunks

NewChunks(fileSize, totalChunks) ==
  [index \in 0..(totalChunks - 1) |->
     [index |-> index,
      size |-> ChunkSize(fileSize, totalChunks, index),
      status |-> "pending",
      attempts |-> 0]]

CompletedChunks(transfer) ==
  Cardinality({i \in DOMAIN transfer.chunks : transfer.chunks[i].status = "completed"})

\* (completedChunks / chunks.length) * 100, kept as its integer part
ProgressOf(completedChunks, length) == (completedChunks * 100) \div length

\* updateActiveTransfers: the map's values, in insertion order, whose status
\* is pending, active or paused.  Ids are issued in increasing order, so the
\* insertion order is the id order.
ActiveList(map) ==
  SelectSeq([i \in 1..(issued + 1) |-> i],
            LAMBDA id : id \in DOMAIN map
                        /\ map[id].status \in {"pending", "active", "paused"})

Remove(map, id) == [k \in DOMAIN map \ {id} |-> map[k]]

\* a pending setTimeout callback; `early` marks a retry timer set before the
\* transfer was started, `due` is the time a retry timer is due (the due
\* time of the other timers is not tracked)
Timer(kind, id, index) ==
  [kind |-> kind, id |-> id, index |-> index, early |-> FALSE, due |-> 0]

\* the delay of the retry timer after the failure that made chunk.attempts
\* `attempts`: 2000 * chunk.attempts
RetryDelay == 2000
retryDelay(attempts) == RetryDelay * attempts
AddTimers(bag, set) == bag (+) SetToBag(set)
DropTimer(bag, t) == bag (-) SetToBag({t})

\* the history with one more of the old entries kept
PushHistoryKeepsAll(transfer, prev) ==
  <<transfer>> \o SubSeq(prev, 1, Min(HistoryKeep + 1, Len(prev)))

\* [transfer, ...prev.slice(0, 49)]
PushHistory(transfer, prev) ==
  <<transfer>> \o SubSeq(prev, 1, Min(HistoryKeep, Len(prev)))

\* recordBytesTransferred: push the sample, keep those of the last 10 s.
\* Timestamps are not modelled: the samples are in time order, so the filter
\* drops a prefix of the older samples, of a length the elapsed time decides.
\* The result is the set of windows the call may leave.
RecordedWindows(window, bytes) ==
  LET all == Append(window, bytes)
  IN { SubSeq(all, k, Len(all)) :
         k \in { j \in 1..Len(all) : Len(all) - j + 1 <= MaxWindow } }

createTransfer(fileSize, totalChunks) ==
  /\ LET transferId == generateTransferId
         transfer == [id |-> transferId,
                      fileSize |-> fileSize,
                      status |-> "pending",
                      progress |-> 0,
                      chunks |-> NewChunks(fileSize, totalChunks)]
     IN /\ transfersRef' = (transferId :> transfer) @@ transfersRef
        /\ activeTransfers' = Append(activeTransfers, transferId)
        /\ speedCalculationRef' = (transferId :> <<>>) @@ speedCalculationRef
        /\ issued' = transferId
  /\ UNCHANGED <<completedTransfers, timers>>

ChunkCount(chunks) == Cardinality(DOMAIN chunks)

\* updateChunkStatus(transferId, chunkIndex, status), called with `timersNow`
\* pending (a timer callback has already left the bag).
updateChunkStatus(transferId, chunkIndex, status, timersNow) ==
  /\ issued' = issued
  /\ IF transferId \notin DOMAIN transfersRef
       THEN \* if (!transfer) return
            /\ timers' = timersNow
            /\ UNCHANGED <<transfersRef, completedTransfers, activeTransfers,
                           speedCalculationRef>>
     ELSE IF chunkIndex \notin DOMAIN transfersRef[transferId].chunks
       THEN \* if (chunk) { ... } is skipped
            /\ timers' = timersNow
            /\ UNCHANGED <<transfersRef, completedTransfers, activeTransfers,
                           speedCalculationRef>>
     ELSE
       LET transfer == transfersRef[transferId]
           old == transfer.chunks[chunkIndex]
           attempts == IF status = "failed" THEN old.attempts + 1 ELSE old.attempts
           chunk == [old EXCEPT !.status = status, !.attempts = attempts]
           marked == [transfer EXCEPT !.chunks = [transfer.chunks EXCEPT ![chunkIndex] = chunk]]
           completedChunks == CompletedChunks(marked)
           length == ChunkCount(transfer.chunks)
       IN CASE status = "completed" /\ completedChunks = length ->
                 \* progress, recordBytesTransferred, then completeTransfer(transferId)
                 LET done == [marked EXCEPT !.status = "completed", !.progress = 100]
                 IN /\ completedTransfers' = PushHistory(done, completedTransfers)
                    /\ transfersRef' = Remove(transfersRef, transferId)
                    /\ speedCalculationRef' = Remove(speedCalculationRef, transferId)
                    /\ activeTransfers' = ActiveList(transfersRef')
                    /\ timers' = timersNow
            [] status = "completed" /\ completedChunks # length ->
                 /\ transfersRef' = [transfersRef EXCEPT ![transferId] =
                       [marked EXCEPT !.progress = ProgressOf(completedChunks, length)]]
                 /\ \E window \in RecordedWindows(speedCalculationRef[transferId], chunk.size) :
                       speedCalculationRef' = [speedCalculationRef EXCEPT ![transferId] = window]
                 /\ activeTransfers' = ActiveList(transfersRef')
                 /\ timers' = timersNow
                 /\ UNCHANGED completedTransfers
            [] status = "failed" ->
                 \* chunk.attempts++, retry while attempts < 3
                 /\ transfersRef' = [transfersRef EXCEPT ![transferId] = marked]
                 /\ timers' = IF attempts < MaxAttempts
                                THEN AddTimers(timersNow,
                                       {[Timer("retry", transferId, chunkIndex)
                                           EXCEPT !.early = (transfer.status = "pending"),
                                                  !.due = now + retryDelay(attempts)]})
                                ELSE timersNow
                 /\ activeTransfers' = ActiveList(transfersRef')
                 /\ UNCHANGED <<completedTransfers, speedCalculationRef>>
            [] OTHER ->
                 /\ transfersRef' = [transfersRef EXCEPT ![transferId] = marked]
                 /\ timers' = timersNow
                 /\ activeTransfers' = ActiveList(transfersRef')
                 /\ UNCHANGED <<completedTransfers, speedCalculationRef>>

\* completeTransfer is reached only from updateChunkStatus (it is not exported)

\* pauseTransfer without its status check
pauseTransferAnyStatus(transferId) ==
  /\ IF transferId \in DOMAIN transfersRef
       THEN /\ transfersRef' = [transfersRef EXCEPT ![transferId].status = "paused"]
            /\ activeTransfers' = ActiveList(transfersRef')
       ELSE UNCHANGED <<transfersRef, activeTransfers>>
  /\ UNCHANGED <<completedTransfers, speedCalculationRef, timers, issued>>

pauseTransfer(transferId) ==
  /\ IF transferId \in DOMAIN transfersRef /\ transfersRef[transferId].status = "active"
       THEN /\ transfersRef' = [transfersRef EXCEPT ![transferId].status = "paused"]
            /\ activeTransfers' = ActiveList(transfersRef')
       ELSE UNCHANGED <<transfersRef, activeTransfers>>
  /\ UNCHANGED <<completedTransfers, speedCalculationRef, timers, issued>>

PendingChunks(transfer) ==
  {i \in DOMAIN transfer.chunks : transfer.chunks[i].status = "pending"}

resumeTransfer(transferId) ==
  /\ IF transferId \in DOMAIN transfersRef /\ transfersRef[transferId].status = "paused"
       THEN /\ transfersRef' = [transfersRef EXCEPT ![transferId].status = "active"]
            /\ timers' = AddTimers(timers,
                  {Timer("resume", transferId, i) : i \in PendingChunks(transfersRef[transferId])})
            /\ activeTransfers' = ActiveList(transfersRef')
       ELSE UNCHANGED <<transfersRef, activeTransfers, timers>>
  /\ UNCHANGED <<completedTransfers, speedCalculationRef, issued>>

\* cancelTransfer without its clean up of the two maps
cancelTransferKeepsEntry(transferId) ==
  /\ IF transferId \in DOMAIN transfersRef
       THEN /\ completedTransfers' =
                 PushHistory([transfersRef[transferId] EXCEPT !.status = "failed"],
                             completedTransfers)
            /\ transfersRef' = [transfersRef EXCEPT ![transferId].status = "failed"]
            /\ activeTransfers' = ActiveList(transfersRef')
            /\ UNCHANGED speedCalculationRef
       ELSE UNCHANGED <<transfersRef, completedTransfers, speedCalculationRef,
                        activeTransfers>>
  /\ UNCHANGED <<timers, issued>>

cancelTransfer(transferId) ==
  /\ IF transferId \in DOMAIN transfersRef
       THEN /\ completedTransfers' =
                 PushHistory([transfersRef[transferId] EXCEPT !.status = "failed"],
                             completedTransfers)
            /\ transfersRef' = Remove(transfersRef, transferId)
            /\ speedCalculationRef' = Remove(speedCalculationRef, transferId)
            /\ activeTransfers' = ActiveList(transfersRef')
       ELSE UNCHANGED <<transfersRef, completedTransfers, speedCalculationRef,
                        activeTransfers>>
  /\ UNCHANGED <<timers, issued>>

startTransfer(transferId) ==
  /\ IF transferId \in DOMAIN transfersRef /\ transfersRef[transferId].status = "pending"
       THEN /\ transfersRef' = [transfersRef EXCEPT ![transferId].status = "active"]
            /\ timers' = AddTimers(timers,
                  {Timer("start", transferId, i) : i \in DOMAIN transfersRef[transferId].chunks})
            /\ activeTransfers' = ActiveList(transfersRef')
       ELSE UNCHANGED <<transfersRef, activeTransfers, timers>>
  /\ UNCHANGED <<completedTransfers, speedCalculationRef, issued>>

\* ---- timer callbacks ----------------------------------------------------
\* setTimeout runs a callback no earlier than its delay, and a timer set
\* earlier with a delay no larger runs first.  startTransfer's timers have
\* the delays index * 100, chunk completion at least 500 and a resume timer
\* less than 1000, so for up to six chunks: the start timers of a transfer
\* run in index order, every one of them before any completion timer of
\* that transfer, and the start timer of chunk 0 (delay 0) before any timer
\* set later.  A retry timer (delay 2000 or more) set after startTransfer
\* runs after every start timer.
StartPending(id) == {t \in BagToSet(timers) : t.kind = "start" /\ t.id = id}

\* startTransfer's outer timer: dispatch the chunk, then set its completion timer
StartTimerFires(t) ==
  /\ BagIn(t, timers) /\ t.kind = "start"
  /\ \A u \in StartPending(t.id) : u.index >= t.index
  /\ updateChunkStatus(t.id, t.index, "downloading",
        AddTimers(DropTimer(timers, t), {Timer("complete", t.id, t.index)}))

\* startTransfer's inner timer: the simulated chunk completion
CompleteTimerFires(t) ==
  /\ BagIn(t, timers) /\ t.kind = "complete"
  /\ StartPending(t.id) = {}
  /\ updateChunkStatus(t.id, t.index, "completed", DropTimer(timers, t))

\* resumeTransfer's timer: dispatch the chunk that was pending at resume
ResumeTimerFires(t) ==
  /\ BagIn(t, timers) /\ t.kind = "resume"
  /\ \A u \in StartPending(t.id) : u.index # 0
  /\ updateChunkStatus(t.id, t.index, "downloading", DropTimer(timers, t))

\* the retry timer of a failed chunk: requeue it as pending
RetryTimerFires(t) ==
  /\ BagIn(t, timers) /\ t.kind = "retry"
  /\ t.early \/ StartPending(t.id) = {}
  /\ updateChunkStatus(t.id, t.index, "pending", DropTimer(timers, t))

\* ---- the transport's chunk callbacks --------------------------------------
\* updateChunkStatus is exported: the transport layer reports chunk results
\* through it.  A well-behaved transport reports the result (completed or
\* failed) of a chunk that is in flight, or reports on a session that is
\* already gone (a stale callback).
InFlight(transferId, chunkIndex) ==
  /\ transferId \in DOMAIN transfersRef
  /\ chunkIndex \in DOMAIN transfersRef[transferId].chunks
  /\ transfersRef[transferId].chunks[chunkIndex].status = "downloading"

\* the model stops reporting failures in a transfer after maxFailures of them
Failures(transfer) ==
  LET RECURSIVE sum(_)
      sum(S) == IF S = {} THEN 0
                ELSE LET i == CHOOSE j \in S : TRUE
                     IN transfer.chunks[i].attempts + sum(S \ {i})
  IN sum(DOMAIN transfer.chunks)

FailuresBounded(transferId, status, maxFailures) ==
  (status = "failed" /\ transferId \in DOMAIN transfersRef)
  => Failures(transfersRef[transferId]) < maxFailures

ChunkResult(transferId, chunkIndex, status) ==
  /\ \/ InFlight(transferId, chunkIndex) /\ status \in {"completed", "failed"}
     \/ transferId \notin DOMAIN transfersRef
  /\ updateChunkStatus(transferId, chunkIndex, status, timers)

\* any call of the exported updateChunkStatus
ChunkCallback(transferId, chunkIndex, status) ==
  updateChunkStatus(transferId, chunkIndex, status, timers)

InitTM ==
  /\ transfersRef = <<>>
  /\ completedTransfers = <<>>
  /\ activeTransfers = <<>>
  /\ speedCalculationRef = <<>>
  /\ timers = EmptyBag
  /\ issued = 0
  /\ now = 0

\* chunks created so far, over the live transfers and the history
ChunksIssued ==
  LET RECURSIVE live(_)
      live(S) == IF S = {} THEN 0
                 ELSE LET i == CHOOSE j \in S : TRUE
                      IN ChunkCount(transfersRef[i].chunks) + live(S \ {i})
      RECURSIVE past(_)
      past(k) == IF k = 0 THEN 0
                 ELSE ChunkCount(completedTransfers[k].chunks) + past(k - 1)
  IN live(DOMAIN transfersRef) + past(Len(completedTransfers))

\* the model keeps at most maxTimers timers pending
TimersWithin(maxTimers) == BagCardinality(timers') <= maxTimers

CreateTransfer(maxTransfers, maxChunks) ==
  /\ \E fileSize \in FileSizes, totalChunks \in 0..maxChunks :
        /\ issued < maxTransfers
        /\ ChunksIssued + totalChunks <= maxChunks
        /\ createTransfer(fileSize, totalChunks)
  /\ UNCHANGED <<now, sigVars, hubVars, ssVars, fpVars, dlVars, envVars, moreVars>>

\* createTransfer over a range of file sizes and chunk counts
SizedTransfers == 2
MaxFileSize == 9
MaxSizedChunks == 4
CreateSized ==
  /\ \E fileSize \in 0..MaxFileSize, totalChunks \in 0..MaxSizedChunks :
        /\ issued < SizedTransfers
        /\ createTransfer(fileSize, totalChunks)
  /\ UNCHANGED <<now, sigVars, hubVars, ssVars, fpVars, dlVars, envVars, moreVars>>

\* createTransfer called again and again, each time after the transfer
\* before has gone to the history: the first HistFill transfers have no
\* chunk, the last one up to HistChunks
HistFill == 50
HistTransfers == HistFill + 1
HistChunks == 1
HistTimers == 2
HistFailures == 1
CreateQueued ==
  /\ \E fileSize \in FileSizes, totalChunks \in 0..HistChunks :
        /\ issued < HistTransfers
        /\ transfersRef = <<>>
        /\ issued < HistFill => totalChunks = 0
        /\ createTransfer(fileSize, totalChunks)
  /\ UNCHANGED <<now, sigVars, hubVars, ssVars, fpVars, dlVars, envVars, moreVars>>

\* a call of the exported updateChunkStatus for the newest transfer or for
\* the one before it, which is gone; every transfer that is gone answers
\* the same way
QueuedCallback ==
  /\ \E id \in {issued - 1, issued} \cap (1..issued), i \in 0..HistChunks,
        st \in ChunkStatuses :
        /\ FailuresBounded(id, st, HistFailures)
        /\ ChunkCallback(id, i, st)
        /\ TimersWithin(HistTimers)
  /\ UNCHANGED <<now, sigVars, hubVars, ssVars, fpVars, dlVars, envVars, moreVars>>

StartTransfer(maxTimers) ==
  /\ \E id \in 1..issued : startTransfer(id) /\ TimersWithin(maxTimers)
  /\ UNCHANGED <<now, sigVars, hubVars, ssVars, fpVars, dlVars, envVars, moreVars>>

PauseTransfer ==
  /\ \E id \in 1..issued : pauseTransfer(id)
  /\ UNCHANGED <<now, sigVars, hubVars, ssVars, fpVars, dlVars, envVars, moreVars>>

ResumeTransfer(maxTimers) ==
  /\ \E id \in 1..issued : resumeTransfer(id) /\ TimersWithin(maxTimers)
  /\ UNCHANGED <<now, sigVars, hubVars, ssVars, fpVars, dlVars, envVars, moreVars>>

CancelTransfer ==
  /\ \E id \in 1..issued : cancelTransfer(id)
  /\ UNCHANGED <<now, sigVars, hubVars, ssVars, fpVars, dlVars, envVars, moreVars>>

StartTimer ==
  /\ \E t \in BagToSet(timers) : StartTimerFires(t)
  /\ UNCHANGED <<now, sigVars, hubVars, ssVars, fpVars, dlVars, envVars, moreVars>>

CompleteTimer ==
  /\ \E t \in BagToSet(timers) : CompleteTimerFires(t)
  /\ UNCHANGED <<now, sigVars, hubVars, ssVars, fpVars, dlVars, envVars, moreVars>>

ResumeTimer ==
  /\ \E t \in BagToSet(timers) : ResumeTimerFires(t)
  /\ UNCHANGED <<now, sigVars, hubVars, ssVars, fpVars, dlVars, envVars, moreVars>>

RetryTimer ==
  /\ \E t \in BagToSet(timers) : RetryTimerFires(t)
  /\ UNCHANGED <<now, sigVars, hubVars, ssVars, fpVars, dlVars, envVars, moreVars>>

TransportResult(maxChunks, maxTimers, maxFailures) ==
  /\ \E id \in 1..issued, i \in 0..maxChunks, st \in ChunkStatuses :
        /\ FailuresBounded(id, st, maxFailures)
        /\ ChunkResult(id, i, st)
        /\ TimersWithin(maxTimers)
  /\ UNCHANGED <<now, sigVars, hubVars, ssVars, fpVars, dlVars, envVars, moreVars>>

AnyCallback(maxChunks, maxTimers, maxFailures) ==
  /\ \E id \in 1..issued, i \in 0..maxChunks, st \in ChunkStatuses :
        /\ FailuresBounded(id, st, maxFailures)
        /\ ChunkCallback(id, i, st)
        /\ TimersWithin(maxTimers)
  /\ UNCHANGED <<now, sigVars, hubVars, ssVars, fpVars, dlVars, envVars, moreVars>>

\* The retry timer runs no earlier than its delay after it was set.
RetryTimerDue ==
  /\ \E t \in BagToSet(timers) : t.due <= now /\ RetryTimerFires(t)
  /\ UNCHANGED <<now, sigVars, hubVars, ssVars, fpVars, dlVars, envVars, moreVars>>

\* Time passes: the clock advances by ClockStep ms, up to MaxNow.
ClockStep == 1000
MaxNow == 6000
Tick ==
  /\ now < MaxNow
  /\ now' = now + ClockStep
  /\ UNCHANGED <<transfersRef, completedTransfers, activeTransfers,
                 speedCalculationRef, timers, issued>>
  /\ UNCHANGED <<sigVars, hubVars, ssVars, fpVars, dlVars, envVars, moreVars>>

NextTM ==
  \/ CreateTransfer(TMTransfers, TMChunks)
  \/ StartTransfer(TMTimers)
  \/ PauseTransfer
  \/ ResumeTransfer(TMTimers)
  \/ CancelTransfer
  \/ StartTimer
  \/ CompleteTimer
  \/ ResumeTimer
  \/ RetryTimer
  \/ TransportResult(TMChunks, TMTimers, TMFailures)

\* the transfer coordinator of one chunk on the clock
BackoffTransfers == 1
BackoffChunks == 1
BackoffTimers == 3
BackoffFailures == 2
NextBackoff ==
  \/ CreateTransfer(BackoffTransfers, BackoffChunks)
  \/ StartTransfer(BackoffTimers)
  \/ PauseTransfer
  \/ ResumeTransfer(BackoffTimers)
  \/ StartTimer
  \/ ResumeTimer
  \/ RetryTimerDue
  \/ TransportResult(BackoffChunks, BackoffTimers, BackoffFailures)
  \/ Tick

NextTMOpen ==
  \/ CreateTransfer(OpenTransfers, OpenChunks)
  \/ StartTransfer(OpenTimers)
  \/ PauseTransfer
  \/ ResumeTransfer(OpenTimers)
  \/ CancelTransfer
  \/ StartTimer
  \/ CompleteTimer
  \/ ResumeTimer
  \/ RetryTimer
  \/ AnyCallback(OpenChunks, OpenTimers, OpenFailures)


\* ------------------------------------------------------------------------
\*  Properties of the transfer coordinator
\* ------------------------------------------------------------------------
Fired(t) == CopiesIn(t, timers') < CopiesIn(t, timers)

LiveChunk(id, index) ==
  id \in DOMAIN transfersRef /\ index \in DOMAIN transfersRef[id].chunks

\* C3: no double assignment.  A dispatch (the start timer or the resume timer
\* of a chunk moving it to downloading) never applies to a chunk that is
\* already in flight (downloading) or completed.
NoDoubleAssignment ==
  [][\A t \in BagToSet(timers) :
        (t.kind \in {"start", "resume"} /\ Fired(t) /\ LiveChunk(t.id, t.index))
        => transfersRef[t.id].chunks[t.index].status \notin {"downloading", "completed"}]_vars

\* C4: retry bound.  A chunk that has failed maxAttempts (3) times has driven
\* its session to failed.
RetryBound ==
  \A id \in DOMAIN transfersRef : \A i \in DOMAIN transfersRef[id].chunks :
     transfersRef[id].chunks[i].attempts >= MaxAttempts
     => transfersRef[id].status = "failed"

AllTransfers ==
  {transfersRef[id] : id \in DOMAIN transfersRef}
    \cup {completedTransfers[k] : k \in 1..Len(completedTransfers)}

\* C5: session completion invariant.  For every transfer, live or in the
\* history, all its chunks are completed iff its status is completed, and its
\* chunk indices are exactly 0 .. totalChunks - 1, each once.
CompletionInvariant ==
  \A t \in AllTransfers :
     /\ (CompletedChunks(t) = ChunkCount(t.chunks)) <=> (t.status = "completed")
     /\ \A i \in DOMAIN t.chunks : t.chunks[i].index = i
     /\ DOMAIN t.chunks = 0..(ChunkCount(t.chunks) - 1)

\* The same for the transfers that have at least one chunk (holds: the only
\* violation of CompletionInvariant is the transfer created with no chunk).
CompletionInvariantNonEmpty ==
  \A t \in AllTransfers :
     ChunkCount(t.chunks) > 0 =>
       ((CompletedChunks(t) = ChunkCount(t.chunks)) <=> (t.status = "completed"))

\* C6: progress monotonicity.  The progress of a session that is not failed
\* never decreases.
ProgressMonotone ==
  [][\A id \in DOMAIN transfersRef \cap DOMAIN transfersRef' :
        transfersRef'[id].status # "failed"
        => transfersRef'[id].progress >= transfersRef[id].progress]_vars

\* the status of transfer `id`, live or in the history
StatusOf(id) ==
  IF id \in DOMAIN transfersRef THEN transfersRef[id].status
  ELSE IF \E k \in 1..Len(completedTransfers) : completedTransfers[k].id = id
    THEN (CHOOSE e \in {completedTransfers[k] : k \in 1..Len(completedTransfers)} :
             e.id = id).status
  ELSE "none"

ClaimedEdges ==
  { <<"none", "pending">>, <<"pending", "active">>, <<"active", "paused">>,
    <<"paused", "active">>, <<"active", "completed">>,
    <<"pending", "failed">>, <<"active", "failed">>, <<"paused", "failed">> }

\* C7 as claimed: the status changes only along pending -> active,
\* active -> paused, paused -> active, active -> completed and
\* non-terminal -> failed.
StatusTransitions ==
  [][\A id \in 1..issued' :
        StatusOf(id)' # StatusOf(id) => <<StatusOf(id), StatusOf(id)'>> \in ClaimedEdges]_vars

\* C7 as amended: as claimed, and a pending or paused session also moves to
\* completed, when its last chunk is reported completed.
StatusTransitionsAmended ==
  [][\A id \in 1..issued' :
        StatusOf(id)' # StatusOf(id)
        => <<StatusOf(id), StatusOf(id)'>> \in
              ClaimedEdges \cup {<<"paused", "completed">>, <<"pending", "completed">>}]_vars

\* C7 witness: a session has run to completed
SessionCompleted ==
  \E k \in 1..Len(completedTransfers) :
     /\ completedTransfers[k].status = "completed"
     /\ ChunkCount(completedTransfers[k].chunks) > 0

HistoryOf(id) == SelectSeq(completedTransfers, LAMBDA e : e.id = id)
Ended(id) == HistoryOf(id) # <<>>

\* C8: stale callbacks are ignored.  Once a session is cancelled or completed
\* (it is in the history), no step brings it back into the transfer map or
\* the speed map or changes its history entry, and a timer callback for it
\* changes no transfer, speed window, history or active list.
StaleCallbacksIgnored ==
  [][/\ \A id \in 1..issued : Ended(id) =>
           /\ id \notin DOMAIN transfersRef'
           /\ id \notin DOMAIN speedCalculationRef'
           /\ HistoryOf(id)' = HistoryOf(id)
     /\ (\E t \in BagToSet(timers) : Ended(t.id) /\ Fired(t))
        => UNCHANGED <<transfersRef, completedTransfers, activeTransfers,
                       speedCalculationRef>>]_vars

\* C8 witness: the start timer of a chunk has run after its session ended
\* (its completion timer is pending, and the chunk was never dispatched)
StaleCallbackSeen ==
  \E t \in BagToSet(timers) :
     /\ t.kind = "complete" /\ Ended(t.id)
     /\ HistoryOf(t.id)[1].chunks[t.index].status = "pending"

\* ========================================================================
\*  part_002: class SignalingServer
\* ========================================================================
\* Not modelled: discover-peers (it reads the registry and replies, it
\* changes nothing), the payloads of offer/answer/ice-candidate, the content
\* of the welcome message, logStats.
\*
\* Time: the sweeper runs every 30 s.  lastSeen holds the number of sweeper
\* periods since Date.now() was stored, so "now - lastSeen > 60000" reads
\* lastSeen > PeerTimeout.  created is "recent" until 24 h have passed since
\* Date.now() was stored, "old" after; any recent share may become old as
\* time passes (TimePasses).

\* connections the model opens
MaxConns == 2
\* sockets of the runs that follow the share directory through time
ShareConns == 1
\* 60000 ms, in sweeper periods of 30000 ms
PeerTimeout == 2
\* the length a peer list is cut to: slice(0, 20), scaled to the registries
\* followed here
PeerListLimit == 1

None == "none"
PeerIds == {"p1", "p2"}
ShareIds == {"s1"}
Regions == {"eu"}
\* the peers and regions of the runs that follow peer discovery
DiscoverIds == {"p1", "p2", "p3"}
DiscoverRegions == {"eu", "us"}
Metadata == {"meta"}
RelayTypes == {"offer", "answer", "ice-candidate"}
\* the sockets of the run (wss.clients and the closed ones)
Conns == DOMAIN sockets

Put(map, key, value) ==
  [k \in DOMAIN map \cup {key} |-> IF k = key THEN value ELSE map[k]]

\* a message on the wire; the fields a message does not carry are None
Blank ==
  [peerId |-> None, from |-> None, to |-> None, shareId |-> None,
   metadata |-> None, seeders |-> {}, error |-> None, reason |-> None,
   peerCount |-> 0, peers |-> <<>>]
Message(type, fields) == ("type" :> type) @@ fields @@ Blank

\* send(ws, message): transmitted only if the socket is open
send(ws, message) ==
  IF sockets[ws].readyState = "OPEN" THEN {("ws" :> ws) @@ message} ELSE {}

sendError(ws, error) == send(ws, Message("error", [error |-> error]))

broadcast(message, excludePeerId) ==
  UNION {send(peers[id].ws, message) : id \in DOMAIN peers \ {excludePeerId}}

handleRegister(ws, peerId, region) ==
  IF peerId = None \/ region = None
  THEN /\ sent' = sendError(ws, "Missing peerId or region")
       /\ UNCHANGED <<peers, fileShares, sockets>>
  ELSE /\ peers' = Put(peers, peerId, [ws |-> ws, region |-> region,
                                       lastSeen |-> 0, files |-> {}])
       /\ sockets' = [sockets EXCEPT ![ws].peerId = peerId]
       /\ sent' = send(ws, Message("registered",
                          [peerId |-> peerId,
                           peerCount |-> Cardinality(DOMAIN peers')]))
       /\ UNCHANGED fileShares

\* handleOffer with the target looked up among the sockets (ws.peerId), not
\* in the registry
handleOfferBySocket(ws, from, to) ==
  /\ sent' = UNION {send(c, Message("offer", [from |-> from, to |-> to])) :
                      c \in {d \in Conns : sockets[d].peerId = to}}
  /\ UNCHANGED <<peers, fileShares, sockets>>

handleOffer(ws, from, to) ==
  /\ sent' = IF to \notin DOMAIN peers
             THEN sendError(ws, "Target peer not found")
             ELSE send(peers[to].ws, Message("offer", [from |-> from, to |-> to]))
  /\ UNCHANGED <<peers, fileShares, sockets>>

handleAnswer(ws, from, to) ==
  /\ sent' = IF to \notin DOMAIN peers
             THEN sendError(ws, "Target peer not found")
             ELSE send(peers[to].ws, Message("answer", [from |-> from, to |-> to]))
  /\ UNCHANGED <<peers, fileShares, sockets>>

handleIceCandidate(ws, from, to) ==
  /\ sent' = IF to \notin DOMAIN peers
             THEN sendError(ws, "Target peer not found")
             ELSE send(peers[to].ws,
                       Message("ice-candidate", [from |-> from, to |-> to]))
  /\ UNCHANGED <<peers, fileShares, sockets>>

\* metadata = None: the share is stored, then metadata.name throws and the
\* message handler's catch answers "Invalid message format"
handleShareFile(ws, peerId, shareId, metadata) ==
  IF peerId \notin DOMAIN peers
  THEN /\ sent' = sendError(ws, "Peer not registered")
       /\ UNCHANGED <<peers, fileShares, sockets>>
  ELSE /\ fileShares' = Put(fileShares, shareId,
                            [peerId |-> peerId, metadata |-> metadata,
                             created |-> "recent"])
       /\ peers' = [peers EXCEPT ![peerId].files = @ \cup {shareId}]
       /\ sent' = IF metadata = None
                  THEN sendError(ws, "Invalid message format")
                  ELSE send(ws, Message("file-shared", [shareId |-> shareId]))
                       \cup broadcast(Message("file-available",
                                        [shareId |-> shareId,
                                         metadata |-> metadata,
                                         peerId |-> peerId]), peerId)
       /\ UNCHANGED sockets

\* the type of the reply handleFindFile gives in the current state
findFileReply(shareId) ==
  IF shareId \notin DOMAIN fileShares THEN "file-not-found"
  ELSE IF fileShares[shareId].peerId \notin DOMAIN peers THEN "file-not-found"
  ELSE "file-found"

Seeders(shareId) == {id \in DOMAIN peers : shareId \in peers[id].files}

\* handleFindFile naming every registered peer as a seeder, whether or not
\* its file set holds the share
handleFindFileAnyPeer(ws, shareId) ==
  /\ IF shareId \notin DOMAIN fileShares
     THEN /\ sent' = send(ws, Message("file-not-found", [shareId |-> shareId]))
          /\ UNCHANGED fileShares
     ELSE IF fileShares[shareId].peerId \notin DOMAIN peers
     THEN /\ fileShares' = Remove(fileShares, shareId)
          /\ sent' = send(ws, Message("file-not-found",
                             [shareId |-> shareId,
                              reason |-> "Sharing peer offline"]))
     ELSE /\ sent' = send(ws, Message("file-found",
                             [shareId |-> shareId,
                              metadata |-> fileShares[shareId].metadata,
                              seeders |-> DOMAIN peers]))
          /\ UNCHANGED fileShares
  /\ UNCHANGED <<peers, sockets>>

handleFindFile(ws, shareId) ==
  /\ IF shareId \notin DOMAIN fileShares
     THEN /\ sent' = send(ws, Message("file-not-found", [shareId |-> shareId]))
          /\ UNCHANGED fileShares
     ELSE IF fileShares[shareId].peerId \notin DOMAIN peers
     THEN /\ fileShares' = Remove(fileShares, shareId)
          /\ sent' = send(ws, Message("file-not-found",
                             [shareId |-> shareId,
                              reason |-> "Sharing peer offline"]))
     ELSE /\ sent' = send(ws, Message("file-found",
                             [shareId |-> shareId,
                              metadata |-> fileShares[shareId].metadata,
                              seeders |-> Seeders(shareId)]))
          /\ UNCHANGED fileShares
  /\ UNCHANGED <<peers, sockets>>

handleFileRequest(ws, shareId, from) ==
  /\ sent' = IF /\ shareId \in DOMAIN fileShares
                /\ fileShares[shareId].peerId \in DOMAIN peers
             THEN send(peers[fileShares[shareId].peerId].ws,
                       Message("file-request",
                               [shareId |-> shareId, from |-> from]))
             ELSE {}
  /\ UNCHANGED <<peers, fileShares, sockets>>

\* a comparator that looks at lastSeen alone
sortsBeforeByLastSeen(P, peerId, a, b) == P[a].lastSeen < P[b].lastSeen

\* the comparator of handleDiscoverPeers is negative for (a, b): a is of the
\* region of the requester and b is not, or both are on the same side and a
\* was seen later (fewer periods ago)
sortsBefore(P, peerId, a, b) ==
  LET sameRegion(x) == P[x].region = P[peerId].region
  IN \/ sameRegion(a) /\ ~sameRegion(b)
     \/ /\ sameRegion(a) = sameRegion(b)
        /\ P[a].lastSeen < P[b].lastSeen

\* the outcomes of filter(id !== peerId) and sort: peers seen in the same
\* period are ordered by the instants themselves, which may be any
sortedPeers(P, peerId) ==
  LET others == DOMAIN P \ {peerId}
      n == Cardinality(others)
  IN {order \in [1..n -> others] :
        /\ \A i, j \in 1..n : i # j => order[i] # order[j]
        /\ \A i, j \in 1..n :
              i < j => ~sortsBefore(P, peerId, order[j], order[i])}

\* Array.slice(0, limit)
Take(seq, limit) == SubSeq(seq, 1, IF Len(seq) < limit THEN Len(seq) ELSE limit)

handleDiscoverPeers(ws, peerId) ==
  /\ IF peerId \notin DOMAIN peers
     THEN sent' = sendError(ws, "Peer not registered")
     ELSE \E order \in sortedPeers(peers, peerId) :
             sent' = send(ws, Message("peer-list",
                                [peers |-> Take(order, PeerListLimit)]))
  /\ UNCHANGED <<peers, fileShares, sockets>>

handleHeartbeat(ws, peerId) ==
  IF peerId \in DOMAIN peers
  THEN /\ peers' = [peers EXCEPT ![peerId].lastSeen = 0]
       /\ sent' = send(ws, Message("heartbeat-ack", Blank))
       /\ UNCHANGED <<fileShares, sockets>>
  ELSE /\ sent' = {}
       /\ UNCHANGED <<peers, fileShares, sockets>>

\* the shares a departing peer takes with it: those in its file set that
\* it owns
OwnedShares(P, F, peerId) ==
  {s \in P[peerId].files \cap DOMAIN F : F[s].peerId = peerId}

Without(map, keys) == [k \in DOMAIN map \ keys |-> map[k]]

\* the close event of ws; readyState is CLOSED by the time it is emitted
handleDisconnection(ws) ==
  LET id == sockets[ws].peerId
  IN /\ IF id # None
        THEN /\ fileShares' = IF id \in DOMAIN peers
                              THEN Without(fileShares,
                                           OwnedShares(peers, fileShares, id))
                              ELSE fileShares
             /\ peers' = Remove(peers, id)
        ELSE UNCHANGED <<peers, fileShares>>
     /\ sockets' = [sockets EXCEPT ![ws].readyState = "CLOSED"]
     /\ sent' = {}

\* cleanupInactivePeers at a time when the registry reads P and the share
\* directory reads F
\* the three effects of cleanupInactivePeers on the registry P whose lastSeen
\* ages are taken at the sweep: the peers dropped, the registry and the
\* directory it leaves
inactivePeers(P) == {id \in DOMAIN P : P[id].lastSeen > PeerTimeout}

sweptPeers(P) == Without(P, inactivePeers(P))

\* the directory left by a sweep that drops the shares of the peers it
\* removes and keeps every other share, whatever its age
sweptSharesOfPeersOnly(P, F) ==
  Without(F, UNION {OwnedShares(P, F, id) : id \in inactivePeers(P)})

sweptShares(P, F) ==
  LET owned == UNION {OwnedShares(P, F, id) : id \in inactivePeers(P)}
      expired == {s \in DOMAIN F : F[s].created = "old"}
  IN Without(F, owned \cup expired)

cleanupInactivePeers(P, F) ==
  /\ sockets' = [c \in Conns |->
                    IF /\ \E id \in inactivePeers(P) : P[id].ws = c
                       /\ sockets[c].readyState = "OPEN"
                    THEN [sockets[c] EXCEPT !.readyState = "CLOSING"]
                    ELSE sockets[c]]
  /\ peers' = sweptPeers(P)
  /\ fileShares' = sweptShares(P, F)
  /\ sent' = {}

\* ---- the environment of the server -----------------------------------------
\* the request a step served is kept for the two requests whose reply does
\* not name the peer they were made for
NoRequest == [ws |-> 0, type |-> "other", peerId |-> None]
Request(ws, type, peerId) ==
  received' = [ws |-> ws, type |-> type, peerId |-> peerId]
Other == received' = NoRequest

InitSigOf(n) ==
  /\ peers = <<>>
  /\ fileShares = <<>>
  /\ sockets = [c \in 1..n |-> [readyState |-> "NONE", peerId |-> None]]
  /\ sent = {}
  /\ received = NoRequest

InitSig == InitSigOf(MaxConns)

\* a socket delivers messages until its close event
Receiving(c) == sockets[c].readyState \in {"OPEN", "CLOSING"}

Idle == UNCHANGED <<tmVars, hubVars, ssVars, fpVars, dlVars, envVars, moreVars>>

\* wss.on("connection"): a new socket, greeted with the welcome message
Connection ==
  /\ \E c \in Conns :
        /\ sockets[c].readyState = "NONE"
        /\ \A d \in 1..(c - 1) : sockets[d].readyState # "NONE"
        /\ sockets' = [sockets EXCEPT ![c].readyState = "OPEN"]
        /\ sent' = {("ws" :> c) @@ Message("welcome", Blank)}
        /\ UNCHANGED <<peers, fileShares>>
  /\ Other
  /\ Idle

Register ==
  /\ \E c \in Conns, id \in PeerIds \cup {None}, region \in Regions \cup {None} :
        Receiving(c) /\ handleRegister(c, id, region)
  /\ Other
  /\ Idle

Offer ==
  /\ \E c \in Conns, from \in PeerIds, to \in PeerIds \cup {None} :
        Receiving(c) /\ handleOffer(c, from, to)
  /\ Other
  /\ Idle

Answer ==
  /\ \E c \in Conns, from \in PeerIds, to \in PeerIds \cup {None} :
        Receiving(c) /\ handleAnswer(c, from, to)
  /\ Other
  /\ Idle

IceCandidate ==
  /\ \E c \in Conns, from \in PeerIds, to \in PeerIds \cup {None} :
        Receiving(c) /\ handleIceCandidate(c, from, to)
  /\ Other
  /\ Idle

ShareFile ==
  /\ \E c \in Conns, id \in PeerIds \cup {None}, s \in ShareIds,
        metadata \in Metadata \cup {None} :
        Receiving(c) /\ handleShareFile(c, id, s, metadata)
  /\ Other
  /\ Idle

FindFile ==
  /\ \E c \in Conns, s \in ShareIds :
        Receiving(c) /\ handleFindFile(c, s)
  /\ Other
  /\ Idle

FileRequest ==
  /\ \E c \in Conns, s \in ShareIds, from \in PeerIds :
        Receiving(c) /\ handleFileRequest(c, s, from)
  /\ Other
  /\ Idle

Heartbeat ==
  /\ \E c \in Conns, id \in PeerIds \cup {None} :
        Receiving(c) /\ handleHeartbeat(c, id) /\ Request(c, "heartbeat", id)
  /\ Idle

\* register and discover-peers over more peers and regions
RegisterWide ==
  /\ \E c \in Conns, id \in DiscoverIds \cup {None},
        region \in DiscoverRegions \cup {None} :
        Receiving(c) /\ handleRegister(c, id, region)
  /\ Other
  /\ Idle

DiscoverPeersWide ==
  /\ \E c \in Conns, id \in DiscoverIds \cup {None} :
        /\ Receiving(c)
        /\ handleDiscoverPeers(c, id)
        /\ Request(c, "discover-peers", id)
  /\ Idle

\* a message of unknown type, or one that is not JSON
BadMessage ==
  /\ \E c \in Conns, json \in BOOLEAN :
        /\ Receiving(c)
        /\ sent' = sendError(c, IF json THEN "Unknown message type"
                                ELSE "Invalid message format")
        /\ UNCHANGED <<peers, fileShares, sockets>>
  /\ Other
  /\ Idle

Close ==
  /\ \E c \in Conns : Receiving(c) /\ handleDisconnection(c)
  /\ Other
  /\ Idle

\* time passes between two handler runs: some shares pass their 24 h
TimePasses ==
  /\ \E old \in SUBSET {s \in DOMAIN fileShares :
                           fileShares[s].created = "recent"} \ {{}} :
        fileShares' = [s \in DOMAIN fileShares |->
                         IF s \in old
                         THEN [fileShares[s] EXCEPT !.created = "old"]
                         ELSE fileShares[s]]
  /\ UNCHANGED <<peers, sockets, sent>>
  /\ Other
  /\ Idle

\* the 30 s interval: one more period has passed since every lastSeen, and
\* cleanupInactivePeers runs
Aged(P) == [id \in DOMAIN P |-> [P[id] EXCEPT !.lastSeen = @ + 1]]

Sweep ==
  /\ cleanupInactivePeers(Aged(peers), fileShares)
  /\ Other
  /\ Idle

\* the registry and the relay alone: no share is published
NextRelay ==
  \/ Connection
  \/ Register
  \/ Offer
  \/ Answer
  \/ IceCandidate
  \/ Heartbeat
  \/ Close
  \/ Sweep

NextSig ==
  \/ Connection
  \/ Register
  \/ Offer
  \/ Answer
  \/ IceCandidate
  \/ ShareFile
  \/ FindFile
  \/ FileRequest
  \/ Heartbeat
  \/ BadMessage
  \/ Close
  \/ Sweep

\* the registry and the share directory through time: nothing is relayed
NextShares ==
  \/ Connection
  \/ Register
  \/ ShareFile
  \/ FindFile
  \/ FileRequest
  \/ Heartbeat
  \/ BadMessage
  \/ Close
  \/ TimePasses
  \/ Sweep

\* registration, the sweeper and peer discovery, over the wider sets
NextDiscover ==
  \/ Connection
  \/ RegisterWide
  \/ DiscoverPeersWide
  \/ Sweep

\* ========================================================================
\*  part_003: the room-based signaling server
\* ========================================================================
\* peerId and currentRoom are variables of the connection handler's closure,
\* one pair per connection.  Every register message of the model carries a
\* peerId.  The server closes no socket, so a socket that
\* delivers a message is open.  lastSeen counts cleanup periods (30 s) as in
\* part_002.

\* connections the model opens
MaxHubConns == 2
\* 30000 ms, in cleanup periods of 30000 ms
HubTimeout == 1

RoomIds == {"r1", "r2"}
HubConnIds == 1..MaxHubConns

HubBlank ==
  [peerId |-> None, roomId |-> None, peers |-> {}, fromPeerId |-> None,
   targetPeerId |-> None, shareId |-> None, message |-> None]
HubMessage(type, fields) == ("type" :> type) @@ fields @@ HubBlank

\* ws.send on the socket of the handler
hubReply(ws, message) == {("ws" :> ws) @@ message}

\* "if (peer && peer.ws.readyState === WebSocket.OPEN) peer.ws.send(...)"
\* for every peer id of a set
hubNotify(ids, message) ==
  {("ws" :> hubPeers[id].ws) @@ message :
     id \in {i \in ids \cap DOMAIN hubPeers :
               hubConns[hubPeers[i].ws].readyState = "OPEN"}}

hubRegister(ws, id) ==
  /\ hubConns' = [hubConns EXCEPT ![ws].peerId = id]
  /\ hubPeers' = Put(hubPeers, id, [ws |-> ws, lastSeen |-> 0])
  /\ hubSent' = hubReply(ws, HubMessage("registered", [peerId |-> id]))
  /\ UNCHANGED hubRooms

hubJoinRoom(ws, roomId) ==
  LET peerId == hubConns[ws].peerId
      members == IF roomId \in DOMAIN hubRooms THEN hubRooms[roomId] ELSE {}
      roomPeers == members \ {peerId}
  IN IF peerId = None
     THEN /\ hubSent' = {}
          /\ UNCHANGED <<hubPeers, hubRooms, hubConns>>
     ELSE /\ hubConns' = [hubConns EXCEPT ![ws].currentRoom = roomId]
          /\ hubRooms' = Put(hubRooms, roomId, members \cup {peerId})
          /\ hubSent' =
               hubReply(ws, HubMessage("room-joined",
                              [roomId |-> roomId, peers |-> roomPeers]))
               \cup hubNotify(roomPeers,
                              HubMessage("peer-joined",
                                [peerId |-> peerId, roomId |-> roomId]))
          /\ UNCHANGED hubPeers

\* offer, answer and ice-candidate share one case
hubRelay(ws, type, targetPeerId) ==
  LET peerId == hubConns[ws].peerId
  IN /\ hubSent' =
          IF peerId = None THEN {}
          ELSE IF /\ targetPeerId \in DOMAIN hubPeers
                  /\ hubConns[hubPeers[targetPeerId].ws].readyState = "OPEN"
          THEN hubNotify({targetPeerId},
                         HubMessage(type, [fromPeerId |-> peerId,
                                           targetPeerId |-> targetPeerId]))
          ELSE hubReply(ws, HubMessage("error",
                              [message |-> "Peer not available",
                               targetPeerId |-> targetPeerId]))
     /\ UNCHANGED <<hubPeers, hubRooms, hubConns>>

hubFileRequest(ws, shareId) ==
  LET peerId == hubConns[ws].peerId
      asked == hubNotify(UNION {hubRooms[r] : r \in DOMAIN hubRooms} \ {peerId},
                         HubMessage("file-request",
                           [shareId |-> shareId, peerId |-> peerId]))
  IN /\ hubSent' =
          IF peerId = None THEN {}
          ELSE IF asked # {} THEN asked
          ELSE hubReply(ws, HubMessage("error",
                              [message |-> "No peers available to serve file"]))
     /\ UNCHANGED <<hubPeers, hubRooms, hubConns>>

hubFileAvailable(ws, requesterId, shareId) ==
  LET peerId == hubConns[ws].peerId
  IN /\ hubSent' =
          IF peerId = None THEN {}
          ELSE hubNotify({requesterId},
                         HubMessage("file-available",
                           [shareId |-> shareId, peerId |-> peerId]))
     /\ UNCHANGED <<hubPeers, hubRooms, hubConns>>

\* peers.get(peerId) is undefined once cleanup has removed the peer: the
\* write to lastSeen throws and the catch answers "Invalid message format"
hubPing(ws) ==
  LET peerId == hubConns[ws].peerId
  IN IF peerId # None /\ peerId \in DOMAIN hubPeers
     THEN /\ hubPeers' = [hubPeers EXCEPT ![peerId].lastSeen = 0]
          /\ hubSent' = hubReply(ws, HubMessage("pong", HubBlank))
          /\ UNCHANGED <<hubRooms, hubConns>>
     ELSE /\ hubSent' =
               IF peerId = None
               THEN hubReply(ws, HubMessage("pong", HubBlank))
               ELSE hubReply(ws, HubMessage("error",
                                   [message |-> "Invalid message format"]))
          /\ UNCHANGED <<hubPeers, hubRooms, hubConns>>

\* a room without the given members; a room left empty is deleted
LeaveRooms(R, roomIds, ids) ==
  LET left == [r \in DOMAIN R |-> IF r \in roomIds THEN R[r] \ ids ELSE R[r]]
  IN Without(left, {r \in roomIds \cap DOMAIN R : left[r] = {}})

\* ws.on("close")
hubClose(ws) ==
  LET peerId == hubConns[ws].peerId
      currentRoom == hubConns[ws].currentRoom
  IN /\ hubConns' = [hubConns EXCEPT ![ws].readyState = "CLOSED"]
     /\ IF peerId # None
        THEN /\ hubPeers' = Remove(hubPeers, peerId)
             /\ IF currentRoom # None /\ currentRoom \in DOMAIN hubRooms
                THEN /\ hubRooms' = LeaveRooms(hubRooms, {currentRoom}, {peerId})
                     /\ hubSent' =
                          {("ws" :> hubPeers'[id].ws) @@
                             HubMessage("peer-left",
                               [peerId |-> peerId, roomId |-> currentRoom]) :
                           id \in {i \in (hubRooms[currentRoom] \ {peerId})
                                          \cap DOMAIN hubPeers' :
                                     hubConns'[hubPeers'[i].ws].readyState = "OPEN"}}
                ELSE /\ hubSent' = {}
                     /\ UNCHANGED hubRooms
        ELSE /\ hubSent' = {}
             /\ UNCHANGED <<hubPeers, hubRooms>>

\* cleanupConnections at a time when the registry reads P
cleanupConnections(P) ==
  LET inactive == {id \in DOMAIN P : P[id].lastSeen > HubTimeout}
  IN /\ hubPeers' = Without(P, inactive)
     /\ hubRooms' = LeaveRooms(hubRooms, DOMAIN hubRooms, inactive)
     /\ hubSent' = {}
     /\ UNCHANGED hubConns

\* ---- the environment of the server -----------------------------------------
InitHub ==
  /\ hubPeers = <<>>
  /\ hubRooms = <<>>
  /\ hubConns = [c \in HubConnIds |->
                   [readyState |-> "NONE", peerId |-> None, currentRoom |-> None]]
  /\ hubSent = {}

HubOpen(c) == hubConns[c].readyState = "OPEN"

HubIdle == UNCHANGED <<tmVars, sigVars, ssVars, fpVars, dlVars, envVars, moreVars>>

HubConnection ==
  /\ \E c \in HubConnIds :
        /\ hubConns[c].readyState = "NONE"
        /\ \A d \in 1..(c - 1) : hubConns[d].readyState # "NONE"
        /\ hubConns' = [hubConns EXCEPT ![c].readyState = "OPEN"]
        /\ hubSent' = hubReply(c, HubMessage("welcome", HubBlank))
        /\ UNCHANGED <<hubPeers, hubRooms>>
  /\ HubIdle

HubRegister ==
  /\ \E c \in HubConnIds, id \in PeerIds :
        HubOpen(c) /\ hubRegister(c, id)
  /\ HubIdle

HubJoinRoom ==
  /\ \E c \in HubConnIds, r \in RoomIds : HubOpen(c) /\ hubJoinRoom(c, r)
  /\ HubIdle

HubRelay ==
  /\ \E c \in HubConnIds, type \in RelayTypes, to \in PeerIds \cup {None} :
        HubOpen(c) /\ hubRelay(c, type, to)
  /\ HubIdle

HubFileRequest ==
  /\ \E c \in HubConnIds, s \in ShareIds : HubOpen(c) /\ hubFileRequest(c, s)
  /\ HubIdle

HubFileAvailable ==
  /\ \E c \in HubConnIds, to \in PeerIds, s \in ShareIds :
        HubOpen(c) /\ hubFileAvailable(c, to, s)
  /\ HubIdle

HubPing ==
  /\ \E c \in HubConnIds : HubOpen(c) /\ hubPing(c)
  /\ HubIdle

\* a message that is not JSON; one of unknown type is logged and not answered
HubBadMessage ==
  /\ \E c \in HubConnIds, json \in BOOLEAN :
        /\ HubOpen(c)
        /\ hubSent' = IF json THEN {}
                      ELSE hubReply(c, HubMessage("error",
                                         [message |-> "Invalid message format"]))
        /\ UNCHANGED <<hubPeers, hubRooms, hubConns>>
  /\ HubIdle

HubClose ==
  /\ \E c \in HubConnIds : HubOpen(c) /\ hubClose(c)
  /\ HubIdle

\* the 30 s interval: one more period has passed, cleanupConnections runs
HubSweep ==
  /\ cleanupConnections(
       [id \in DOMAIN hubPeers |-> [hubPeers[id] EXCEPT !.lastSeen = @ + 1]])
  /\ HubIdle

NextHub ==
  \/ HubConnection
  \/ HubRegister
  \/ HubJoinRoom
  \/ HubRelay
  \/ HubFileRequest
  \/ HubFileAvailable
  \/ HubPing
  \/ HubBadMessage
  \/ HubClose
  \/ HubSweep

\* ========================================================================
\*  scripts/signaling-server.js: the room server with generated peer ids
\* ========================================================================
MaxSsConns == 2

\* generatePeerId: the id given to the n-th connection, and one id that is
\* never given
SsIds == <<"k1", "k2", "k3", "k4">>
SsUnknownId == "kx"
SsRoomIds == {"r1", "r2"}
SsShareIds == {"s1"}
SsPayloads == {"sdp"}
SsConnIds == DOMAIN ssConns
\* the ids a client may name: those of the connections and the unknown one
SsTargets == {SsIds[c] : c \in SsConnIds} \cup {SsUnknownId}

SsBlank ==
  [peerId |-> None, roomId |-> None, peers |-> {}, targetPeerId |-> None,
   fromPeerId |-> None, requesterPeerId |-> None, providerPeerId |-> None,
   shareId |-> None, payload |-> None, message |-> None]
SsMessage(type, fields) == ("type" :> type) @@ fields @@ SsBlank

Range(seq) == {seq[i] : i \in DOMAIN seq}
\* Set.add and Set.delete on a Set kept in insertion order
SetAdd(seq, x) == IF x \in Range(seq) THEN seq ELSE Append(seq, x)
SetDelete(seq, x) == SelectSeq(seq, LAMBDA y : y # x)

\* the Maps and the output of a handler while it runs
SsRunning ==
  [peers |-> ssPeers, rooms |-> ssRooms, sent |-> {}, aborted |-> FALSE]

\* "ids.forEach(id => { const p = peers.get(id); if (p) p.ws.send(message) })":
\* ws.send on a socket that is not open either drops the message or throws,
\* by the version of the ws package; a throw ends the handler
ssDeliver(S, ids, message, throws) ==
  LET known == SelectSeq(ids, LAMBDA i : i \in DOMAIN S.peers)
      refused == {k \in DOMAIN known :
                    ssConns[S.peers[known[k]].ws] # "OPEN"}
      stop == IF throws /\ refused # {}
              THEN CHOOSE k \in refused : \A j \in refused : k <= j
              ELSE Len(known) + 1
  IN [S EXCEPT
        !.sent = @ \cup {("ws" :> S.peers[known[k]].ws) @@ message :
                           k \in (1..(stop - 1)) \ refused},
        !.aborted = stop <= Len(known)]

joinRoom(S, peerId, roomId, throws) ==
  IF peerId \notin DOMAIN S.peers THEN S
  ELSE LET members == IF roomId \in DOMAIN S.rooms THEN S.rooms[roomId]
                      ELSE <<>>
           room == SetAdd(members, peerId)
           otherPeers == SetDelete(room, peerId)
           S1 == [S EXCEPT !.rooms = Put(@, roomId, room),
                           !.peers[peerId].rooms = SetAdd(@, roomId)]
           S2 == ssDeliver(S1, <<peerId>>,
                           SsMessage("room-joined",
                             [roomId |-> roomId, peers |-> Range(otherPeers)]),
                           throws)
       IN IF S2.aborted THEN S2
          ELSE ssDeliver(S2, otherPeers,
                         SsMessage("peer-joined",
                           [roomId |-> roomId, peerId |-> peerId]), throws)

\* leaveRoom without "peer.rooms.delete(roomId)": the room forgets the
\* peer and the peer keeps the room
leaveRoomOneWay(S, peerId, roomId, throws) ==
  IF peerId \notin DOMAIN S.peers \/ roomId \notin DOMAIN S.rooms THEN S
  ELSE LET room == SetDelete(S.rooms[roomId], peerId)
           S1 == [S EXCEPT !.rooms[roomId] = room]
           S2 == ssDeliver(S1, room,
                           SsMessage("peer-left",
                             [roomId |-> roomId, peerId |-> peerId]), throws)
       IN IF ~S2.aborted /\ room = <<>>
          THEN [S2 EXCEPT !.rooms = Remove(@, roomId)]
          ELSE S2

leaveRoom(S, peerId, roomId, throws) ==
  IF peerId \notin DOMAIN S.peers \/ roomId \notin DOMAIN S.rooms THEN S
  ELSE LET room == SetDelete(S.rooms[roomId], peerId)
           S1 == [S EXCEPT !.rooms[roomId] = room,
                           !.peers[peerId].rooms = SetDelete(@, roomId)]
           S2 == ssDeliver(S1, room,
                           SsMessage("peer-left",
                             [roomId |-> roomId, peerId |-> peerId]), throws)
       IN IF ~S2.aborted /\ room = <<>>
          THEN [S2 EXCEPT !.rooms = Remove(@, roomId)]
          ELSE S2

\* "peer.rooms.forEach(roomId => leaveRoom(peerId, roomId))"
RECURSIVE leaveRooms(_, _, _, _)
leaveRooms(S, peerId, roomIds, throws) ==
  IF roomIds = <<>> \/ S.aborted THEN S
  ELSE leaveRooms(leaveRoom(S, peerId, Head(roomIds), throws),
                  peerId, Tail(roomIds), throws)

relayMessage(S, fromPeerId, type, targetPeerId, payload, throws) ==
  IF targetPeerId \in DOMAIN S.peers
  THEN ssDeliver(S, <<targetPeerId>>,
                 SsMessage(type, [targetPeerId |-> targetPeerId,
                                  fromPeerId |-> fromPeerId,
                                  payload |-> payload]), throws)
  ELSE ssDeliver(S, <<fromPeerId>>,
                 SsMessage("error", [message |-> "Target peer not found",
                                     targetPeerId |-> targetPeerId]), throws)

\* the peers Map in insertion order: ids are given in connection order
ssPeerOrder(P) ==
  LET n == Len(ssConns)
      ids == [c \in 1..n |-> SsIds[c]]
  IN SelectSeq(ids, LAMBDA i : i \in DOMAIN P)

\* findPeerWithFile: the first entry of the peers Map, whatever the share
findPeerWithFile(S, shareId) ==
  IF ssPeerOrder(S.peers) = <<>> THEN <<>>
  ELSE <<Head(ssPeerOrder(S.peers))>>

ssHandleFileRequest(S, peerId, shareId, throws) ==
  IF findPeerWithFile(S, shareId) # <<>>
  THEN ssDeliver(S, findPeerWithFile(S, shareId),
                 SsMessage("file-request",
                   [shareId |-> shareId, requesterPeerId |-> peerId]), throws)
  ELSE ssDeliver(S, <<peerId>>,
                 SsMessage("file-not-found", [shareId |-> shareId]), throws)

ssHandleFileResponse(S, peerId, requesterPeerId, shareId, throws) ==
  ssDeliver(S, <<requesterPeerId>>,
            SsMessage("file-response",
              [shareId |-> shareId, providerPeerId |-> peerId]), throws)

\* the close handler of a connection
ssClose(S, peerId, throws) ==
  IF peerId \notin DOMAIN S.peers THEN S
  ELSE LET S1 == leaveRooms(S, peerId, S.peers[peerId].rooms, throws)
       IN IF S1.aborted THEN S1
          ELSE [S1 EXCEPT !.peers = Remove(@, peerId)]

\* cleanupInactivePeers: "for (const [peerId, peer] of peers)"
RECURSIVE ssCleanup(_, _, _)
ssCleanup(S, peerIds, throws) ==
  IF peerIds = <<>> \/ S.aborted THEN S
  ELSE LET peerId == Head(peerIds)
       IN IF /\ peerId \in DOMAIN S.peers
             /\ S.peers[peerId].old
             /\ ssConns[S.peers[peerId].ws] # "OPEN"
          THEN ssCleanup(ssClose(S, peerId, throws), Tail(peerIds), throws)
          ELSE ssCleanup(S, Tail(peerIds), throws)

\* ---- the environment of the server -----------------------------------------
InitSs ==
  /\ ssPeers = <<>>
  /\ ssRooms = <<>>
  /\ ssConns = [c \in 1..MaxSsConns |-> "NONE"]
  /\ ssSent = {}
  /\ ssReceived = [ws |-> 0, type |-> "listening", targetPeerId |-> None,
                   payload |-> None]
  /\ ssSilent = {}

SsIdle == UNCHANGED <<tmVars, sigVars, hubVars, fpVars, dlVars, envVars, moreVars>>

\* the event served by the step; the timers serve no socket (ws = 0)
SsEvent(ws, type, targetPeerId, payload) ==
  ssReceived' = [ws |-> ws, type |-> type, targetPeerId |-> targetPeerId,
                 payload |-> payload]

\* a message of the socket has arrived
SsHeard(c) == ssSilent' = ssSilent \ {c}

\* the state a handler leaves
SsDone(S) ==
  /\ ssPeers' = S.peers
  /\ ssRooms' = S.rooms
  /\ ssSent' = S.sent

\* wss.on("connection")
SsConnection ==
  /\ \E c \in SsConnIds :
        /\ ssConns[c] = "NONE"
        /\ \A d \in 1..(c - 1) : ssConns[d] # "NONE"
        /\ ssConns' = [ssConns EXCEPT ![c] = "OPEN"]
        /\ ssPeers' = Put(ssPeers, SsIds[c],
                          [ws |-> c, old |-> FALSE, rooms |-> <<>>])
        /\ ssSent' = {("ws" :> c) @@
                        SsMessage("peer-id", [peerId |-> SsIds[c]])}
        /\ SsEvent(c, "connection", None, None)
        /\ UNCHANGED <<ssRooms, ssSilent>>
  /\ SsIdle

\* a message event: only an open socket delivers, and handleMessage drops
\* the message of a peer that is not in the Map
SsServing(c) == ssConns[c] = "OPEN" /\ SsIds[c] \in DOMAIN ssPeers

SsJoinRoom ==
  /\ \E c \in SsConnIds, roomId \in SsRoomIds, throws \in BOOLEAN :
        /\ SsServing(c)
        /\ SsDone(joinRoom(SsRunning, SsIds[c], roomId, throws))
        /\ SsEvent(c, "join-room", None, None)
        /\ SsHeard(c)
        /\ UNCHANGED ssConns
  /\ SsIdle

SsLeaveRoom ==
  /\ \E c \in SsConnIds, roomId \in SsRoomIds, throws \in BOOLEAN :
        /\ SsServing(c)
        /\ SsDone(leaveRoom(SsRunning, SsIds[c], roomId, throws))
        /\ SsEvent(c, "leave-room", None, None)
        /\ SsHeard(c)
        /\ UNCHANGED ssConns
  /\ SsIdle

SsRelay ==
  /\ \E c \in SsConnIds, type \in RelayTypes, payload \in SsPayloads,
        targetPeerId \in SsTargets,
        throws \in BOOLEAN :
        /\ SsServing(c)
        /\ SsDone(relayMessage(SsRunning, SsIds[c], type, targetPeerId,
                               payload, throws))
        /\ SsEvent(c, type, targetPeerId, payload)
        /\ SsHeard(c)
        /\ UNCHANGED ssConns
  /\ SsIdle

SsFileRequest ==
  /\ \E c \in SsConnIds, shareId \in SsShareIds, throws \in BOOLEAN :
        /\ SsServing(c)
        /\ SsDone(ssHandleFileRequest(SsRunning, SsIds[c], shareId, throws))
        /\ SsEvent(c, "file-request", None, None)
        /\ SsHeard(c)
        /\ UNCHANGED ssConns
  /\ SsIdle

SsFileResponse ==
  /\ \E c \in SsConnIds, shareId \in SsShareIds,
        requesterPeerId \in SsTargets,
        throws \in BOOLEAN :
        /\ SsServing(c)
        /\ SsDone(ssHandleFileResponse(SsRunning, SsIds[c], requesterPeerId,
                                       shareId, throws))
        /\ SsEvent(c, "file-response", requesterPeerId, None)
        /\ SsHeard(c)
        /\ UNCHANGED ssConns
  /\ SsIdle

SsPing ==
  /\ \E c \in SsConnIds :
        /\ SsServing(c)
        /\ SsDone(ssDeliver(SsRunning, <<SsIds[c]>>,
                            SsMessage("pong", SsBlank), FALSE))
        /\ SsEvent(c, "ping", None, None)
        /\ SsHeard(c)
        /\ UNCHANGED ssConns
  /\ SsIdle

\* a message that JSON.parse rejects, or one of a type outside the switch:
\* both are logged and nothing else happens
SsBadMessage ==
  /\ \E c \in SsConnIds, json \in BOOLEAN :
        /\ ssConns[c] = "OPEN"
        /\ ssSent' = {}
        /\ SsEvent(c, IF json THEN "unknown" ELSE "unparseable", None, None)
        /\ SsHeard(c)
        /\ UNCHANGED <<ssPeers, ssRooms, ssConns>>
  /\ SsIdle

\* the client starts the closing handshake, or its link fails: the socket
\* is no longer open and its close event is still to come
SsClosing ==
  /\ \E c \in SsConnIds :
        /\ ssConns[c] = "OPEN"
        /\ ssConns' = [ssConns EXCEPT ![c] = "CLOSING"]
        /\ ssSent' = {}
        /\ SsEvent(c, "closing", None, None)
        /\ UNCHANGED <<ssPeers, ssRooms, ssSilent>>
  /\ SsIdle

\* ws.on("close")
SsClose ==
  /\ \E c \in SsConnIds, throws \in BOOLEAN :
        /\ ssConns[c] \in {"OPEN", "CLOSING"}
        /\ ssConns' = [ssConns EXCEPT ![c] = "CLOSED"]
        /\ LET S == ssClose(SsRunning, SsIds[c], throws)
           IN /\ ssPeers' = S.peers
              /\ ssRooms' = S.rooms
              /\ \* the sends of the handler see the socket closed
                 ssSent' = {m \in S.sent : m.ws # c}
        /\ SsEvent(c, "close", None, None)
        /\ SsHeard(c)
  /\ SsIdle

\* time passes: for some peers five minutes have gone by since they
\* connected, and some of the peers connected that long ago have sent
\* nothing for five minutes
SsTimePasses ==
  /\ \E aged \in SUBSET {i \in DOMAIN ssPeers : ~ssPeers[i].old},
        quiet \in SUBSET {c \in SsConnIds : ssConns[c] \in {"OPEN", "CLOSING"}} :
        /\ aged # {} \/ quiet \ ssSilent # {}
        /\ ssPeers' = [i \in DOMAIN ssPeers |->
                         IF i \in aged THEN [ssPeers[i] EXCEPT !.old = TRUE]
                         ELSE ssPeers[i]]
        /\ \A c \in quiet : /\ SsIds[c] \in DOMAIN ssPeers'
                             /\ ssPeers'[SsIds[c]].old
        /\ ssSilent' = ssSilent \cup quiet
  /\ ssSent' = {}
  /\ SsEvent(0, "time", None, None)
  /\ UNCHANGED <<ssRooms, ssConns>>
  /\ SsIdle

\* setInterval(cleanupInactivePeers, 30000)
SsSweep ==
  /\ \E throws \in BOOLEAN :
        SsDone(ssCleanup(SsRunning, ssPeerOrder(ssPeers), throws))
  /\ SsEvent(0, "sweep", None, None)
  /\ UNCHANGED <<ssConns, ssSilent>>
  /\ SsIdle

NextSs ==
  \/ SsConnection
  \/ SsJoinRoom
  \/ SsLeaveRoom
  \/ SsRelay
  \/ SsFileRequest
  \/ SsFileResponse
  \/ SsPing
  \/ SsBadMessage
  \/ SsClosing
  \/ SsClose
  \/ SsTimePasses
  \/ SsSweep

\* ========================================================================
\*  hooks/use-file-processor.ts: encryptChunk and decryptChunk
\* ========================================================================
\* bytes are counted modulo ByteMod, chunks have up to MaxChunkLen bytes and
\* keys are numbered 0..MaxKey
ByteMod == 3
MaxChunkLen == 2
MaxKey == 1
\* new Uint8Array(12): the IV; AES-GCM appends a tag of 128 bits
IvLen == 12
TagLen == 16

Bytes == 0..(ByteMod - 1)
FpKeys == 0..MaxKey
FpChunks == UNION {[1..n -> Bytes] : n \in 0..MaxChunkLen}
\* crypto.getRandomValues(new Uint8Array(12)): three of its outcomes
FpIvs == {[i \in 1..IvLen |-> 0], [i \in 1..IvLen |-> 1],
          [i \in 1..IvLen |-> i % ByteMod]}

RECURSIVE Sum(_)
Sum(seq) == IF seq = <<>> THEN 0 ELSE Head(seq) + Sum(Tail(seq))

\* Uint8Array.slice(begin, end)
Slice(data, begin, end) ==
  SubSeq(data, begin + 1, IF end < Len(data) THEN end ELSE Len(data))

\* AES-GCM as an authenticated cipher: a key stream set by key and IV, and
\* a tag over key, IV and ciphertext that any change of one byte alters
keyStream(key, iv, i) == (key + Sum(iv) + i) % ByteMod
gcmTag(key, iv, ct) ==
  [j \in 1..TagLen |-> (key + j + Sum(iv) + Sum(ct) + Len(ct)) % ByteMod]

\* crypto.subtle.encrypt({ name: "AES-GCM", iv }, key, data)
subtleEncrypt(key, iv, data) ==
  LET ct == [i \in 1..Len(data) |->
               (data[i] + keyStream(key, iv, i)) % ByteMod]
  IN ct \o gcmTag(key, iv, ct)

\* crypto.subtle.decrypt({ name: "AES-GCM", iv }, key, data): the promise
\* rejects when the tag does not verify
subtleDecrypt(key, iv, data) ==
  IF Len(data) < TagLen THEN [ok |-> FALSE, bytes |-> <<>>]
  ELSE LET ct == SubSeq(data, 1, Len(data) - TagLen)
           tag == SubSeq(data, Len(data) - TagLen + 1, Len(data))
       IN IF tag # gcmTag(key, iv, ct) THEN [ok |-> FALSE, bytes |-> <<>>]
          ELSE [ok |-> TRUE,
                bytes |-> [i \in 1..Len(ct) |->
                             (ct[i] + ByteMod - keyStream(key, iv, i))
                                % ByteMod]]

\* encryptChunk with iv the outcome of getRandomValues
encryptChunk(chunk, key, iv) == iv \o subtleEncrypt(key, iv, chunk)

\* decryptChunk taking the first 16 bytes for the IV
decryptChunkIv16(encryptedChunk, key) ==
  subtleDecrypt(key, Slice(encryptedChunk, 0, 16),
                Slice(encryptedChunk, 16, Len(encryptedChunk)))

decryptChunk(encryptedChunk, key) ==
  subtleDecrypt(key, Slice(encryptedChunk, 0, 12),
                Slice(encryptedChunk, 12, Len(encryptedChunk)))

InitFp ==
  /\ fpStage = "idle"
  /\ fpChunk = <<>>
  /\ fpKey = 0
  /\ fpData = <<>>
  /\ fpCorrupted = FALSE
  /\ fpOut = <<>>

FpIdle == UNCHANGED <<tmVars, sigVars, hubVars, ssVars, dlVars, envVars, moreVars>>

\* a chunk of a file and the key of the file
FpChoose ==
  /\ fpStage = "idle"
  /\ \E chunk \in FpChunks, key \in FpKeys :
        fpChunk' = chunk /\ fpKey' = key
  /\ fpStage' = "plain"
  /\ UNCHANGED <<fpData, fpCorrupted, fpOut>>
  /\ FpIdle

FpEncrypt ==
  /\ fpStage = "plain"
  /\ \E iv \in FpIvs : fpData' = encryptChunk(fpChunk, fpKey, iv)
  /\ fpStage' = "encrypted"
  /\ UNCHANGED <<fpChunk, fpKey, fpCorrupted, fpOut>>
  /\ FpIdle

\* one byte of the encrypted chunk changes on its way
FpCorrupt ==
  /\ fpStage = "encrypted"
  /\ ~fpCorrupted
  /\ \E i \in DOMAIN fpData, b \in Bytes :
        /\ b # fpData[i]
        /\ fpData' = [fpData EXCEPT ![i] = b]
  /\ fpCorrupted' = TRUE
  /\ UNCHANGED <<fpStage, fpChunk, fpKey, fpOut>>
  /\ FpIdle

FpDecrypt ==
  /\ fpStage = "encrypted"
  /\ LET result == decryptChunk(fpData, fpKey)
     IN /\ fpStage' = IF result.ok THEN "decrypted" ELSE "rejected"
        /\ fpOut' = result.bytes
  /\ UNCHANGED <<fpChunk, fpKey, fpData, fpCorrupted>>
  /\ FpIdle

NextFp ==
  \/ FpChoose
  \/ FpEncrypt
  \/ FpCorrupt
  \/ FpDecrypt

\* ------------------------------------------------------------------------
\*  hooks/use-p2p-network.ts: the chunk envelope
\* ------------------------------------------------------------------------
\* Strings are the sequences of their character codes, buffers sequences of
\* bytes.
IdLen == 16

\* three share ids: two characters, sixteen characters (what generateShareId
\* returns), and fifteen characters the first of which takes two bytes
ShortId == <<97, 98>>
FullId == [i \in 1..IdLen |-> 96 + i]
AccentId == [i \in 1..(IdLen - 1) |-> IF i = 1 THEN 233 ELSE 96 + i]
EnvShareIds == {ShortId, FullId, AccentId}
EnvChunkIndexes == {0, 1, 258, 65537}
EnvChunkData == {<<>>, <<0>>, <<5>>, <<5, 0>>}

\* String.prototype.padEnd(n, "\0")
padEnd(str, n) ==
  IF Len(str) >= n THEN str ELSE str \o [i \in 1..(n - Len(str)) |-> 0]

\* new TextEncoder().encode(str), for character codes below 2048
RECURSIVE TextEncode(_)
TextEncode(str) ==
  IF str = <<>> THEN <<>>
  ELSE LET c == Head(str)
       IN (IF c < 128 THEN <<c>> ELSE <<192 + (c \div 64), 128 + (c % 64)>>)
          \o TextEncode(Tail(str))

\* new TextDecoder().decode(bytes); a byte that starts no character of one or
\* two bytes decodes to U+FFFD
RECURSIVE TextDecode(_)
TextDecode(bytes) ==
  IF bytes = <<>> THEN <<>>
  ELSE LET b == Head(bytes)
       IN IF b < 128 THEN <<b>> \o TextDecode(Tail(bytes))
          ELSE IF /\ b >= 194 /\ b < 224 /\ Len(bytes) >= 2
                  /\ bytes[2] >= 128 /\ bytes[2] < 192
            THEN <<(b - 192) * 64 + (bytes[2] - 128)>> \o TextDecode(Tail(Tail(bytes)))
          ELSE <<65533>> \o TextDecode(Tail(bytes))

\* DataView.setUint32(offset, value, true) and getUint32(offset, true): the
\* four low bytes of the value, lowest first
setUint32(value) ==
  <<value % 256, (value \div 256) % 256, (value \div 65536) % 256,
    (value \div 16777216) % 256>>
getUint32(bytes) ==
  bytes[1] + 256 * bytes[2] + 65536 * bytes[3] + 16777216 * bytes[4]

\* handleChunkRequest's message [type(1)][shareId(16)][chunkIndex(4)][chunkData];
\* Uint8Array.set throws a RangeError when the encoded id is longer than the
\* 16 bytes of its field, and then nothing is sent (no bytes)
chunkMessage(shareId, chunkIndex, chunkData) ==
  LET shareIdBytes == TextEncode(padEnd(shareId, IdLen))
  IN IF Len(shareIdBytes) > IdLen THEN <<>>
     ELSE <<1>> \o shareIdBytes \o setUint32(chunkIndex) \o chunkData

\* what handleDataChannelMessage reads from a binary message; a message of
\* another type than 1 is ignored
NoChunk == [messageType |-> 0, shareId |-> <<>>, chunkIndex |-> 0, chunkData |-> <<>>]
readChunkMessage(data) ==
  IF data[1] # 1 THEN NoChunk
  ELSE [messageType |-> data[1],
        shareId |-> TextDecode(SubSeq(data, 2, IdLen + 1)),
        chunkIndex |-> getUint32(SubSeq(data, IdLen + 2, IdLen + 5)),
        chunkData |-> SubSeq(data, IdLen + 6, Len(data))]

InitEnv ==
  /\ envStage = "none"
  /\ envShareId = <<>>
  /\ envChunkIndex = 0
  /\ envChunkData = <<>>
  /\ envMessage = <<>>
  /\ envDecoded = NoChunk

EnvIdle == UNCHANGED <<tmVars, sigVars, hubVars, ssVars, fpVars, dlVars, moreVars>>

\* a chunk-request for a chunk of a share arrives at the peer that holds it
EnvChunkRequest ==
  /\ envStage = "none"
  /\ envShareId' \in EnvShareIds
  /\ envChunkIndex' \in EnvChunkIndexes
  /\ envChunkData' \in EnvChunkData
  /\ envStage' = "requested"
  /\ UNCHANGED <<envMessage, envDecoded>>
  /\ EnvIdle

\* handleChunkRequest builds the message and sends it
EnvSend ==
  /\ envStage = "requested"
  /\ envMessage' = chunkMessage(envShareId, envChunkIndex, envChunkData)
  /\ envStage' = IF envMessage' = <<>> THEN "thrown" ELSE "sent"
  /\ UNCHANGED <<envShareId, envChunkIndex, envChunkData, envDecoded>>
  /\ EnvIdle

\* handleDataChannelMessage of the requesting peer reads it
EnvReceive ==
  /\ envStage = "sent"
  /\ envDecoded' = readChunkMessage(envMessage)
  /\ envStage' = "received"
  /\ UNCHANGED <<envShareId, envChunkIndex, envChunkData, envMessage>>
  /\ EnvIdle

NextEnv ==
  \/ EnvChunkRequest
  \/ EnvSend
  \/ EnvReceive

\* ------------------------------------------------------------------------
\*  hooks/use-p2p-network.ts: downloadFile
\* ------------------------------------------------------------------------
\* One call of downloadFile is followed.  The peers of peersRef are numbered
\* in insertion order; every one of them may send any chunk message at any
\* time, the peer the file was requested from answers the file-request once.
DlPeers == 2
MaxTotalChunks == 5
MaxArrivals == 2
DlTimeout == 30000
DlTickMs == 10000
DlShareIds == {ShortId, FullId}
DlChunkData == <<5>>
NoPeer == 0

InitDl ==
  /\ channels = [p \in 1..DlPeers |-> "connecting"]
  /\ downloadCallbacks = {}
  /\ dlShareId = <<>>
  /\ dlPromise = "none"
  /\ dlError = None
  /\ dlFileRequest = NoPeer
  /\ dlTotalChunks = 0
  /\ dlReceivedChunks = 0
  /\ dlChunks = {}
  /\ dlRequested = [p \in 1..DlPeers |-> {}]
  /\ dlTimer = FALSE
  /\ dlElapsed = 0
  /\ dlQuiet = 0

DlIdle == UNCHANGED <<tmVars, sigVars, hubVars, ssVars, fpVars, envVars, moreVars>>

\* availablePeers: the peers whose data channel is open
availablePeers == {p \in 1..DlPeers : channels[p] = "open"}

\* resolve() and reject() settle a promise that is still pending
resolve == dlPromise' = IF dlPromise = "pending" THEN "resolved" ELSE dlPromise
reject(error) ==
  /\ dlPromise' = IF dlPromise = "pending" THEN "rejected" ELSE dlPromise
  /\ dlError' = IF dlPromise = "pending" THEN error ELSE dlError

\* downloadFile(shareId, onProgress, onChunk)
downloadFile(shareId) ==
  IF availablePeers = {}
    THEN /\ dlPromise' = "rejected"
         /\ dlError' = "No peers available"
         /\ dlShareId' = shareId
         /\ UNCHANGED <<downloadCallbacks, dlFileRequest, dlTotalChunks,
                        dlReceivedChunks, dlChunks, dlRequested, dlTimer,
                        dlElapsed, dlQuiet>>
    ELSE LET peer == CHOOSE p \in availablePeers : \A q \in availablePeers : p <= q
         IN /\ dlPromise' = "pending"
            /\ dlShareId' = shareId
            /\ downloadCallbacks' = downloadCallbacks \cup {shareId}
            /\ dlFileRequest' = peer
            /\ dlTimer' = TRUE
            /\ dlElapsed' = 0
            /\ dlQuiet' = 0
            /\ UNCHANGED <<dlError, dlTotalChunks, dlReceivedChunks, dlChunks,
                           dlRequested>>

\* the download callback: callback(chunkData, chunkIndex)
downloadCallback(chunkIndex) ==
  /\ dlChunks' = dlChunks \cup {chunkIndex}
  /\ dlReceivedChunks' = dlReceivedChunks + 1
  /\ dlQuiet' = 0
  /\ IF dlReceivedChunks' = dlTotalChunks
       THEN /\ downloadCallbacks' = downloadCallbacks \ {dlShareId}
            /\ resolve
       ELSE UNCHANGED <<downloadCallbacks, dlPromise>>

\* handleDataChannelMessage(data, peerId) for a binary message
handleDataChannelMessage(data) ==
  LET message == readChunkMessage(data)
  IN IF message.messageType = 1 /\ message.shareId \in downloadCallbacks
       THEN downloadCallback(message.chunkIndex)
       ELSE UNCHANGED <<downloadCallbacks, dlPromise, dlChunks,
                        dlReceivedChunks, dlQuiet>>

\* the onmessage handler downloadFile installs, for the file-metadata message
onFileMetadata(peer, totalChunks) ==
  /\ dlTotalChunks' = totalChunks
  /\ dlRequested' = [dlRequested EXCEPT ![peer] = @ \cup 0..(totalChunks - 1)]

\* ---- the environment of the hook --------------------------------------------
ChannelOpens ==
  /\ \E p \in 1..DlPeers :
        /\ channels[p] = "connecting"
        /\ channels' = [channels EXCEPT ![p] = "open"]
  /\ UNCHANGED <<downloadCallbacks, dlShareId, dlPromise, dlError,
                 dlFileRequest, dlTotalChunks, dlReceivedChunks, dlChunks,
                 dlRequested, dlTimer, dlElapsed, dlQuiet>>
  /\ DlIdle

ChannelCloses ==
  /\ \E p \in 1..DlPeers :
        /\ channels[p] = "open"
        /\ channels' = [channels EXCEPT ![p] = "closed"]
  /\ UNCHANGED <<downloadCallbacks, dlShareId, dlPromise, dlError,
                 dlFileRequest, dlTotalChunks, dlReceivedChunks, dlChunks,
                 dlRequested, dlTimer, dlElapsed, dlQuiet>>
  /\ DlIdle

DownloadFile ==
  /\ dlPromise = "none"
  /\ \E shareId \in DlShareIds : downloadFile(shareId)
  /\ UNCHANGED channels
  /\ DlIdle

\* the peer that holds the share answers the file-request with file-metadata
FileMetadata ==
  /\ dlFileRequest # NoPeer
  /\ channels[dlFileRequest] = "open"
  /\ \E totalChunks \in 0..MaxTotalChunks : onFileMetadata(dlFileRequest, totalChunks)
  /\ dlFileRequest' = NoPeer
  /\ UNCHANGED <<channels, downloadCallbacks, dlShareId, dlPromise, dlError,
                 dlReceivedChunks, dlChunks, dlTimer, dlElapsed, dlQuiet>>
  /\ DlIdle

\* a peer sends the message handleChunkRequest builds for a chunk of the share
ChunkArrives ==
  /\ dlPromise # "none"
  /\ dlReceivedChunks < MaxArrivals
  /\ \E p \in availablePeers, chunkIndex \in 0..MaxTotalChunks :
        LET data == chunkMessage(dlShareId, chunkIndex, DlChunkData)
        IN /\ data # <<>>
           /\ handleDataChannelMessage(data)
           /\ dlRequested' = [dlRequested EXCEPT ![p] = @ \ {chunkIndex}]
  /\ UNCHANGED <<channels, dlShareId, dlError, dlFileRequest, dlTotalChunks,
                 dlTimer, dlElapsed>>
  /\ DlIdle

\* downloadFile's timer: "Timeout after 30 seconds"
DownloadTimeout ==
  /\ dlTimer /\ dlElapsed >= DlTimeout
  /\ dlTimer' = FALSE
  /\ downloadCallbacks' = downloadCallbacks \ {dlShareId}
  /\ reject("Download timeout")
  /\ UNCHANGED <<channels, dlShareId, dlFileRequest, dlTotalChunks,
                 dlReceivedChunks, dlChunks, dlRequested, dlElapsed, dlQuiet>>
  /\ DlIdle

\* time passes while the timer is pending
DlTick ==
  /\ dlTimer /\ dlElapsed < DlTimeout
  /\ dlElapsed' = dlElapsed + DlTickMs
  /\ dlQuiet' = dlQuiet + DlTickMs
  /\ UNCHANGED <<channels, downloadCallbacks, dlShareId, dlPromise, dlError,
                 dlFileRequest, dlTotalChunks, dlReceivedChunks, dlChunks,
                 dlRequested, dlTimer>>
  /\ DlIdle

NextDl ==
  \/ ChannelOpens
  \/ ChannelCloses
  \/ DownloadFile
  \/ FileMetadata
  \/ ChunkArrives
  \/ DownloadTimeout
  \/ DlTick

\* the transfer manager next to the peers' channels
StartTransfers == 1
StartChunks == 2
StartTimers == 2
NextStart ==
  \/ ChannelOpens
  \/ ChannelCloses
  \/ DownloadFile
  \/ CreateTransfer(StartTransfers, StartChunks)
  \/ StartTransfer(StartTimers)
  \/ StartTimer

\* ------------------------------------------------------------------------
\*  part_002: the order of the peer list
\* ------------------------------------------------------------------------
\* this.peers is a Map: Array.from(this.peers.entries()) lists the peers in
\* the order their ids were first set, and Array.prototype.sort is stable.
\* Here the registry is the sequence of its entries and lastSeen the value
\* of Date.now() itself.
RkIds == <<"p1", "p2", "p3">>
RkRegions == {"eu", "us"}
RkMaxNow == 1
RankLimit == 20
RkNoList == [peerId |-> "none", peers |-> <<>>]

\* the position of an id in the order of the strings
IdRank(id) == CHOOSE i \in DOMAIN RkIds : RkIds[i] = id

\* this.peers.set(peerId, {...}): an id that is new goes to the end, an id
\* that is known keeps its place
MapSet(entries, entry) ==
  IF \E i \in DOMAIN entries : entries[i].id = entry.id
    THEN [i \in DOMAIN entries |->
            IF entries[i].id = entry.id THEN entry ELSE entries[i]]
    ELSE Append(entries, entry)

\* the comparator of the sort, for the requester's region
rankCompare(region, a, b) ==
  LET sameRegion(x) == x.region = region
  IN IF sameRegion(a) /\ ~sameRegion(b) THEN -1
     ELSE IF ~sameRegion(a) /\ sameRegion(b) THEN 1
     ELSE b.lastSeen - a.lastSeen

\* Array.prototype.sort, stable: an entry goes behind every entry that does
\* not sort after it
RECURSIVE StableInsert(_, _, _)
StableInsert(sorted, entry, region) ==
  IF sorted = <<>> THEN <<entry>>
  ELSE IF rankCompare(region, Head(sorted), entry) <= 0
    THEN <<Head(sorted)>> \o StableInsert(Tail(sorted), entry, region)
  ELSE <<entry>> \o sorted

RECURSIVE StableSort(_, _)
StableSort(entries, region) ==
  IF entries = <<>> THEN <<>>
  ELSE StableInsert(StableSort(SubSeq(entries, 1, Len(entries) - 1), region),
                    entries[Len(entries)], region)

\* the peers of handleDiscoverPeers' answer to a registered peer
rankedPeers(entries, peerId) ==
  LET peer == entries[CHOOSE i \in DOMAIN entries : entries[i].id = peerId]
      others == SelectSeq(entries, LAMBDA e : e.id # peerId)
      sorted == Take(StableSort(others, peer.region), RankLimit)
  IN [i \in DOMAIN sorted |-> sorted[i].id]

InitRk ==
  /\ rkPeers = <<>>
  /\ rkNow = 0
  /\ rkList = RkNoList

RkIdle ==
  UNCHANGED <<tmVars, sigVars, hubVars, ssVars, fpVars, dlVars, envVars, ddVars,
              rcVars>>

\* handleRegister
RkRegister ==
  /\ \E i \in DOMAIN RkIds, region \in RkRegions :
        rkPeers' = MapSet(rkPeers, [id |-> RkIds[i], region |-> region,
                                    lastSeen |-> rkNow])
  /\ rkList' = RkNoList
  /\ UNCHANGED rkNow
  /\ RkIdle

\* handleDiscoverPeers of a registered peer
RkDiscoverPeers ==
  /\ \E i \in DOMAIN rkPeers :
        rkList' = [peerId |-> rkPeers[i].id,
                   peers |-> rankedPeers(rkPeers, rkPeers[i].id)]
  /\ UNCHANGED <<rkPeers, rkNow>>
  /\ RkIdle

\* a millisecond passes
RkTick ==
  /\ rkNow < RkMaxNow
  /\ rkNow' = rkNow + 1
  /\ rkList' = RkNoList
  /\ UNCHANGED rkPeers
  /\ RkIdle

NextRk ==
  \/ RkRegister
  \/ RkDiscoverPeers
  \/ RkTick

\* ========================================================================
\*  hooks/use-p2p-network.ts: several calls of downloadFile for one share
\* ========================================================================
\* The calls are numbered in the order they are made.  All of them name the
\* same share id, so they share one key of downloadCallbacks, and all of
\* them wrap the onmessage of the same data channel.
DdCalls == 2
DdMaxTotalChunks == 2
DdMaxArrivals == 3
NoCall == 0
DdCallIds == 1..DdCalls

InitDd ==
  /\ ddChannel = "connecting"
  /\ ddCallback = NoCall
  /\ ddHandlers = <<>>
  /\ ddPromise = [k \in DdCallIds |-> "none"]
  /\ ddError = [k \in DdCallIds |-> "none"]
  /\ ddTimer = [k \in DdCallIds |-> "none"]
  /\ ddTotalChunks = [k \in DdCallIds |-> 0]
  /\ ddReceivedChunks = [k \in DdCallIds |-> 0]

DdIdle ==
  UNCHANGED <<tmVars, sigVars, hubVars, ssVars, fpVars, dlVars, envVars, rkVars,
              rcVars>>

\* resolve and reject of the Promise of call k settle it only while pending
ddResolve(k) ==
  /\ ddPromise' = [ddPromise EXCEPT ![k] = IF @ = "pending" THEN "resolved" ELSE @]
  /\ UNCHANGED ddError
ddReject(k, error) ==
  /\ ddPromise' = [ddPromise EXCEPT ![k] = IF @ = "pending" THEN "rejected" ELSE @]
  /\ ddError' = [ddError EXCEPT ![k] = IF ddPromise[k] = "pending" THEN error ELSE @]

\* dataChannel.onopen and onclose of the peer
DdChannelOpens ==
  /\ ddChannel = "connecting"
  /\ ddChannel' = "open"
  /\ UNCHANGED <<ddCallback, ddHandlers, ddPromise, ddError, ddTimer,
                 ddTotalChunks, ddReceivedChunks>>
  /\ DdIdle

DdChannelCloses ==
  /\ ddChannel = "open"
  /\ ddChannel' = "closed"
  /\ UNCHANGED <<ddCallback, ddHandlers, ddPromise, ddError, ddTimer,
                 ddTotalChunks, ddReceivedChunks>>
  /\ DdIdle

\* downloadFile(shareId, onProgress, onChunk), the k-th call
DdDownloadFile ==
  /\ \E k \in DdCallIds :
        /\ ddPromise[k] = "none"
        /\ \A j \in 1..(k - 1) : ddPromise[j] # "none"
        /\ IF ddChannel # "open"
           THEN /\ ddPromise' = [ddPromise EXCEPT ![k] = "rejected"]
                /\ ddError' = [ddError EXCEPT ![k] = "No peers available"]
                /\ UNCHANGED <<ddCallback, ddHandlers, ddTimer>>
           ELSE /\ ddPromise' = [ddPromise EXCEPT ![k] = "pending"]
                /\ ddCallback' = k
                /\ ddHandlers' = Append(ddHandlers, k)
                /\ ddTimer' = [ddTimer EXCEPT ![k] = "armed"]
                /\ UNCHANGED ddError
  /\ UNCHANGED <<ddChannel, ddTotalChunks, ddReceivedChunks>>
  /\ DdIdle

\* a file-metadata message of the share arrives: every wrapper on the
\* channel runs, the newest first, and each sets the totalChunks of its call
DdFileMetadata ==
  /\ ddChannel = "open"
  /\ ddHandlers # <<>>
  /\ \E total \in 1..DdMaxTotalChunks :
        ddTotalChunks' = [k \in DdCallIds |->
                            IF k \in Range(ddHandlers) THEN total
                            ELSE ddTotalChunks[k]]
  /\ UNCHANGED <<ddChannel, ddCallback, ddHandlers, ddPromise, ddError,
                 ddTimer, ddReceivedChunks>>
  /\ DdIdle

\* a chunk of the share arrives: handleDataChannelMessage hands it to the
\* callback stored under the share id, if there is one
DdChunkArrives ==
  /\ ddChannel = "open"
  /\ ddCallback # NoCall
  /\ LET k == ddCallback
         receivedChunks == ddReceivedChunks[k] + 1
     IN /\ receivedChunks <= DdMaxArrivals
        /\ ddReceivedChunks' = [ddReceivedChunks EXCEPT ![k] = receivedChunks]
        /\ IF receivedChunks = ddTotalChunks[k]
           THEN /\ ddCallback' = NoCall
                /\ ddResolve(k)
           ELSE UNCHANGED <<ddCallback, ddPromise, ddError>>
  /\ UNCHANGED <<ddChannel, ddHandlers, ddTimer, ddTotalChunks>>
  /\ DdIdle

\* the 30-second timer of call k; the timers have one delay and fire in
\* the order they were armed
DdTimeout ==
  /\ \E k \in DdCallIds :
        /\ ddTimer[k] = "armed"
        /\ \A j \in 1..(k - 1) : ddTimer[j] # "armed"
        /\ ddTimer' = [ddTimer EXCEPT ![k] = "fired"]
        /\ ddCallback' = NoCall
        /\ ddReject(k, "Download timeout")
  /\ UNCHANGED <<ddChannel, ddHandlers, ddTotalChunks, ddReceivedChunks>>
  /\ DdIdle

NextDd ==
  \/ DdChannelOpens
  \/ DdChannelCloses
  \/ DdDownloadFile
  \/ DdFileMetadata
  \/ DdChunkArrives
  \/ DdTimeout

\* ========================================================================
\*  part_006: the signaling socket of the useP2PNetwork hook
\* ========================================================================
RcMaxSockets == 4
RcMaxTimers == 2

InitRc ==
  /\ rcMounted = "no"
  /\ rcSockets = <<>>
  /\ rcTimers = 0

RcIdle ==
  UNCHANGED <<tmVars, sigVars, hubVars, ssVars, fpVars, dlVars, envVars, rkVars,
              ddVars>>

\* connectToSignalingServer: "wsRef.current = new WebSocket(signalingUrl)"
connectToSignalingServer(socketList) == Append(socketList, "CONNECTING")

\* WebSocket.close(): a socket that is not closed yet starts closing
wsClose(readyState) == IF readyState = "CLOSED" THEN "CLOSED" ELSE "CLOSING"

\* the effect that runs on mount
RcMount ==
  /\ rcMounted = "no"
  /\ rcMounted' = "mounted"
  /\ rcSockets' = connectToSignalingServer(rcSockets)
  /\ UNCHANGED rcTimers
  /\ RcIdle

\* the "Connect" button of the page calls connectToSignalingServer
RcConnectButton ==
  /\ rcMounted = "mounted"
  /\ Len(rcSockets) < RcMaxSockets
  /\ rcSockets' = connectToSignalingServer(rcSockets)
  /\ UNCHANGED <<rcMounted, rcTimers>>
  /\ RcIdle

\* onopen of a socket
RcOpen ==
  /\ \E s \in DOMAIN rcSockets :
        /\ rcSockets[s] = "CONNECTING"
        /\ rcSockets' = [rcSockets EXCEPT ![s] = "OPEN"]
  /\ UNCHANGED <<rcMounted, rcTimers>>
  /\ RcIdle

\* the close event of a socket, whoever closed it: onclose arms the
\* reconnect timer
RcOnClose ==
  /\ rcTimers < RcMaxTimers
  /\ \E s \in DOMAIN rcSockets :
        /\ rcSockets[s] # "CLOSED"
        /\ rcSockets' = [rcSockets EXCEPT ![s] = "CLOSED"]
  /\ rcTimers' = rcTimers + 1
  /\ UNCHANGED rcMounted
  /\ RcIdle

\* the reconnect timer, 3 s after a close event
RcReconnectTimer ==
  /\ rcTimers > 0
  /\ rcTimers' = rcTimers - 1
  /\ IF rcSockets[Len(rcSockets)] = "CLOSED" /\ Len(rcSockets) < RcMaxSockets
     THEN rcSockets' = connectToSignalingServer(rcSockets)
     ELSE UNCHANGED rcSockets
  /\ UNCHANGED rcMounted
  /\ RcIdle

\* the cleanup of the effect: "if (wsRef.current) wsRef.current.close()"
RcCleanup ==
  /\ rcMounted = "mounted"
  /\ rcMounted' = "unmounted"
  /\ rcSockets' = [rcSockets EXCEPT ![Len(rcSockets)] = wsClose(@)]
  /\ UNCHANGED rcTimers
  /\ RcIdle

NextRc ==
  \/ RcMount
  \/ RcConnectButton
  \/ RcOpen
  \/ RcOnClose
  \/ RcReconnectTimer
  \/ RcCleanup

NextSized ==
  \/ CreateSized

NextHistory ==
  \/ CreateQueued
  \/ StartTransfer(HistTimers)
  \/ CancelTransfer
  \/ StartTimer
  \/ CompleteTimer
  \/ RetryTimer
  \/ QueuedCallback

\* ========================================================================
\*  Specifications
\* ========================================================================
InitMore == InitRk /\ InitDd /\ InitRc
Init == InitTM /\ InitSig /\ InitHub /\ InitSs /\ InitFp /\ InitDl /\ InitEnv /\ InitMore
\* the share directory is followed over fewer sockets
InitShares ==
  InitTM /\ InitSigOf(ShareConns) /\ InitHub /\ InitSs /\ InitFp /\ InitDl /\ InitEnv /\ InitMore

SpecTM == Init /\ [][NextTM]_vars
SpecTMOpen == Init /\ [][NextTMOpen]_vars
SpecBackoff == Init /\ [][NextBackoff]_vars
SpecSig == Init /\ [][NextSig]_vars
SpecRelay == Init /\ [][NextRelay]_vars
SpecShares == InitShares /\ [][NextShares]_vars
SpecDiscover == InitShares /\ [][NextDiscover]_vars
SpecHub == Init /\ [][NextHub]_vars
SpecSs == Init /\ [][NextSs]_vars
SpecFp == Init /\ [][NextFp]_vars
SpecEnv == Init /\ [][NextEnv]_vars
SpecDl == Init /\ [][NextDl]_vars
SpecStart == Init /\ [][NextStart]_vars
SpecRk == Init /\ [][NextRk]_vars
SpecDd == Init /\ [][NextDd]_vars
SpecRc == Init /\ [][NextRc]_vars
SpecSized == Init /\ [][NextSized]_vars
SpecHistory == Init /\ [][NextHistory]_vars

\* ------------------------------------------------------------------------
\*  Properties of the signaling servers
\* ------------------------------------------------------------------------

\* C1: an offer, answer or ice-candidate is put on the wire only for a
\* target peer id that is in the registry at that moment, and only on the
\* open socket the registry holds for that id; so nothing is relayed to a
\* peer id once its removal (disconnect or sweep) has completed.
RelayOnlyToRegistered ==
  \A m \in sent :
     m.type \in RelayTypes =>
        /\ m.to \in DOMAIN peers
        /\ peers[m.to].ws = m.ws
        /\ sockets[m.ws].readyState = "OPEN"

\* C1, witness: a message is relayed to a peer id whose earlier connection
\* has disconnected and which has registered again on another socket.
RelayAfterUnregister ==
  \E m \in sent :
     /\ m.type \in RelayTypes
     /\ \E c \in Conns \ {m.ws} :
           sockets[c].readyState = "CLOSED" /\ sockets[c].peerId = m.to

\* C2: when a step removes from the registry a peer that is the only one
\* holding share S, find(S) answers file-not-found right after the step.
CascadeCorrectness ==
  [][\A p \in DOMAIN peers \ DOMAIN peers', s \in DOMAIN fileShares :
        Seeders(s) = {p} => findFileReply(s)' = "file-not-found"]_vars

\* C10: an operation never replaces a live entry: a registered peer with an
\* open socket keeps its socket and its file set, and the share of a
\* registered owner keeps its owner.
LiveEntriesNeverReplaced ==
  [][/\ \A id \in DOMAIN peers \cap DOMAIN peers' :
           sockets[peers[id].ws].readyState = "OPEN" =>
              /\ peers'[id].ws = peers[id].ws
              /\ peers[id].files \subseteq peers'[id].files
     /\ \A s \in DOMAIN fileShares \cap DOMAIN fileShares' :
           fileShares[s].peerId \in DOMAIN peers =>
              fileShares'[s].peerId = fileShares[s].peerId]_vars

\* C9: every member of every room is a registered peer.
RoomInvariant ==
  \A r \in DOMAIN hubRooms : hubRooms[r] \subseteq DOMAIN hubPeers

\* C11: a register naming a peer that is registered on an open socket is
\* not acknowledged: no "registered" reply names that peer.
RegisterRejectsDuplicate ==
  [][\A id \in DOMAIN peers :
        sockets[peers[id].ws].readyState = "OPEN" =>
           \A m \in sent' : ~(m.type = "registered" /\ m.peerId = id)]_vars

\* C12: a join is answered with exactly the members the room had before it,
\* the joiner left out, and each of these members, and no other socket,
\* receives a peer-joined notice naming the joiner.
JoinNotifiesPriorMembers ==
  [][\A m \in hubSent' :
        m.type = "room-joined" =>
           LET joiner == hubConns[m.ws].peerId
               prior == (IF m.roomId \in DOMAIN hubRooms
                         THEN hubRooms[m.roomId] ELSE {}) \ {joiner}
               notices == {n \in hubSent' : n.type = "peer-joined"}
           IN /\ m.peers = prior
              /\ \A q \in prior :
                    /\ q \in DOMAIN hubPeers
                    /\ \E n \in notices : /\ n.ws = hubPeers[q].ws
                                          /\ n.peerId = joiner
                                          /\ n.roomId = m.roomId
              /\ \A n \in notices :
                    \E q \in prior \cap DOMAIN hubPeers :
                       n.ws = hubPeers[q].ws]_vars

FileRequestNotToRequester ==
  \A m \in ssSent :
     m.type = "file-request" => SsIds[m.ws] # m.requesterPeerId

\* C15: when the owner of a share leaves the registry while another
\* registered peer holds the share, the share, unless it has expired, stays
\* in the directory and is still found.
ShareSurvivesOwner ==
  [][\A s \in DOMAIN fileShares :
        LET owner == fileShares[s].peerId
        IN (/\ owner \in DOMAIN peers
            /\ owner \notin DOMAIN peers'
            /\ fileShares[s].created # "old"
            /\ \E q \in (DOMAIN peers \cap DOMAIN peers') \ {owner} :
                  s \in peers[q].files /\ s \in peers'[q].files)
           => /\ s \in DOMAIN fileShares'
              /\ findFileReply(s)' = "file-found"]_vars

\* C16: a relayed offer, answer or ice-candidate whose target is registered
\* on an open socket puts exactly one message on the wire, to the target,
\* with the type and the payload received; for any other target nothing is
\* forwarded and the sender gets one error reply naming the target.
RelayDelivery ==
  [][ssReceived'.type \in RelayTypes =>
        LET c == ssReceived'.ws
            to == ssReceived'.targetPeerId
            live == to \in DOMAIN ssPeers /\ ssConns[ssPeers[to].ws] = "OPEN"
        IN IF live
           THEN ssSent' = {("ws" :> ssPeers[to].ws) @@
                             SsMessage(ssReceived'.type,
                               [targetPeerId |-> to,
                                fromPeerId |-> SsIds[c],
                                payload |-> ssReceived'.payload])}
           ELSE ssSent' = {("ws" :> c) @@
                             SsMessage("error",
                               [message |-> "Target peer not found",
                                targetPeerId |-> to])}]_vars

\* C17: a step with the effect of the sweeper on the registry and on the
\* directory removes every share older than 24 h, after which a find of the
\* share is answered file-not-found, and it keeps every share that is not
\* older and whose owner stays registered; and a find is always answered by
\* what the directory holds.
ExpirySweep ==
  [][/\ (/\ peers' = sweptPeers(Aged(peers))
         /\ fileShares' = sweptShares(Aged(peers), fileShares))
        => \A s \in DOMAIN fileShares :
              /\ fileShares[s].created = "old"
                   => /\ s \notin DOMAIN fileShares'
                      /\ findFileReply(s)' = "file-not-found"
              /\ (/\ fileShares[s].created # "old"
                  /\ fileShares[s].peerId \in DOMAIN peers')
                   => /\ s \in DOMAIN fileShares'
                      /\ fileShares'[s] = fileShares[s]
     /\ \A m \in sent' :
           m.type \in {"file-found", "file-not-found"}
              => m.type = findFileReply(m.shareId)]_vars

\* C17, the case: a find answered file-not-found for a share that every
\* peer has published and still lists, none of them having left since: the
\* share was removed for its age alone
ExpiredShareNotFound ==
  \E m \in sent :
     /\ m.type = "file-not-found"
     /\ m.shareId \notin DOMAIN fileShares
     /\ \A p \in PeerIds : p \in DOMAIN peers /\ m.shareId \in peers[p].files

\* C18: after a run of the sweeper no peer is registered whose socket has
\* sent nothing for longer than the timeout.
SweepRemovesSilentPeers ==
  [][ssReceived'.type = "sweep" =>
        \A p \in DOMAIN ssPeers' : ssPeers'[p].ws \notin ssSilent']_vars

\* C19: a message that cannot be parsed or whose type is unknown is
\* answered with an error reply on the socket it came from.
MalformedGetsError ==
  [][ssReceived'.type \in {"unparseable", "unknown"} =>
        \E m \in ssSent' : m.type = "error" /\ m.ws = ssReceived'.ws]_vars

\* C20: decryptChunk returns the bytes of the chunk when it is given what
\* encryptChunk returned for that chunk and key, and it fails whenever one
\* byte of that buffer was changed; the buffer is the IV, then as many bytes
\* as the chunk, then the tag.
EncryptionRoundTrip ==
  /\ fpStage \in {"encrypted", "decrypted", "rejected"}
       => Len(fpData) = IvLen + Len(fpChunk) + TagLen
  /\ fpStage \in {"decrypted", "rejected"}
       => IF fpCorrupted THEN fpStage = "rejected"
          ELSE fpStage = "decrypted" /\ fpOut = fpChunk

\* C20, the case: a chunk of some bytes has been encrypted and decrypted
ChunkDecrypted ==
  fpStage = "decrypted" /\ fpChunk # <<>> /\ ~fpCorrupted

HeartbeatContract ==
  [][received'.type = "heartbeat" =>
        LET id == received'.peerId
            ws == received'.ws
            open == sockets[ws].readyState = "OPEN"
        IN /\ UNCHANGED <<fileShares, sockets>>
           /\ IF id \in DOMAIN peers
              THEN /\ peers' = [peers EXCEPT ![id].lastSeen = 0]
                   /\ open => \E m \in sent' :
                                 m.type = "heartbeat-ack" /\ m.ws = ws
              ELSE /\ UNCHANGED peers
                   /\ open => \E m \in sent' :
                                 m.type = "error" /\ m.ws = ws]_vars

\* C23: pause() stops new dispatch.  While a transfer's status is paused, no
\* step moves one of its chunks from pending to downloading, whatever timer
\* was set before the pause.
PauseStopsDispatch ==
  [][\A id \in DOMAIN transfersRef :
        (transfersRef[id].status = "paused" /\ id \in DOMAIN transfersRef')
        => \A i \in DOMAIN transfersRef[id].chunks :
              transfersRef[id].chunks[i].status = "pending"
              => transfersRef'[id].chunks[i].status # "downloading"]_vars

\* The claim's backoff leaves baseDelay open; half of the code's 2000 ms
\* makes baseDelay * 2^k and the code's delay agree for k = 1.
baseDelay == RetryDelay \div 2
RetryTimersOf(id, i) ==
  {t \in BagToSet(timers) : t.kind = "retry" /\ t.id = id /\ t.index = i}

\* The delay alone: the k-th failure of a chunk, k < maxAttempts, sets a
\* retry timer due baseDelay * 2^k from now.
BackoffDelay ==
  [][\A id \in DOMAIN transfersRef \cap DOMAIN transfersRef' :
       \A i \in DOMAIN transfersRef[id].chunks :
          LET before == transfersRef[id].chunks[i]
              after == transfersRef'[id].chunks[i]
              k == after.attempts
          IN (after.status = "failed" /\ k = before.attempts + 1 /\ k < MaxAttempts)
             => \E t \in BagToSet(timers') :
                   /\ t.kind = "retry" /\ t.id = id /\ t.index = i
                   /\ t.due = now + baseDelay * 2^k
                   /\ CopiesIn(t, timers') = CopiesIn(t, timers) + 1]_vars

\* C28: after a chunk's k-th failure with k < maxAttempts the chunk is
\* requeued as pending after a delay of baseDelay * 2^k, and not before that
\* delay has elapsed: the failure sets a retry timer due baseDelay * 2^k from
\* now, and a failed chunk becomes pending only when no retry timer of that
\* chunk is still running.
RetryBackoff ==
  [][\A id \in DOMAIN transfersRef \cap DOMAIN transfersRef' :
       \A i \in DOMAIN transfersRef[id].chunks :
          LET before == transfersRef[id].chunks[i]
              after == transfersRef'[id].chunks[i]
              k == after.attempts
          IN /\ (after.status = "failed" /\ k = before.attempts + 1 /\ k < MaxAttempts)
                => \E t \in BagToSet(timers') :
                      /\ t.kind = "retry" /\ t.id = id /\ t.index = i
                      /\ t.due = now + baseDelay * 2^k
                      /\ CopiesIn(t, timers') = CopiesIn(t, timers) + 1
             /\ (before.status = "failed" /\ after.status = "pending")
                => \A t \in RetryTimersOf(id, i) : t.due <= now]_vars

\* ------------------------------------------------------------------------
\*  Properties of the download path
\* ------------------------------------------------------------------------
\* C24: per-channel concurrency bound.  At any instant at most
\* maxInFlightPerChannel = 4 chunks are requested from any single peer
\* channel and not yet answered.
ChannelConcurrency ==
  \A p \in 1..DlPeers : Cardinality(dlRequested[p]) <= 4

\* C25: a download resolves only when every chunk index in [0, totalChunks)
\* has been received, whatever duplicates, out-of-range indexes and chunks
\* ahead of the metadata were delivered.
ResolvedOnlyWhenComplete ==
  dlPromise = "resolved" => \A i \in 0..(dlTotalChunks - 1) : i \in dlChunks

NoGlobalTimeout ==
  [][(dlError' = "Download timeout" /\ dlError # "Download timeout")
        => dlQuiet >= DlTimeout]_vars

\* C29: a session enters active only when at least one peer channel is open.
\* startTransfer on a pending session with no open channel leaves it pending
\* and sets no dispatch timer.
StartNeedsOpenChannel ==
  [][\A id \in DOMAIN transfersRef :
        (transfersRef[id].status = "pending" /\ availablePeers = {})
        => /\ id \in DOMAIN transfersRef'
           /\ transfersRef'[id].status = "pending"
           /\ timers' = timers]_vars

\* ------------------------------------------------------------------------
\*  Properties of the room directories
\* ------------------------------------------------------------------------
\* The room directory of scripts/signaling-server.js: every room has a
\* member, and every member is a peer that is connected.
SsRoomsLive ==
  \A r \in DOMAIN ssRooms :
     /\ Len(ssRooms[r]) > 0
     /\ \A i \in DOMAIN ssRooms[r] : ssRooms[r][i] \in DOMAIN ssPeers

\* C30: rooms exist only while they have members.  After any sequence of
\* join, leave, disconnect and sweep events no room of the directory has an
\* empty member set, and every room has a member that joined it and has not
\* left: a peer that is still registered.
RoomsOnlyWhileJoined ==
  \A r \in DOMAIN hubRooms : \E id \in hubRooms[r] : id \in DOMAIN hubPeers

\* ------------------------------------------------------------------------
\*  Properties of the last sitting's sub-models
\* ------------------------------------------------------------------------
\* C31: the discovery ranking is deterministic.  Two peers of a peer list
\* that are equal in (sameRegion, lastSeen) stand in the order of their peer
\* ids, whatever the order in which they registered.
RankTiesByPeerId ==
  rkList.peerId # "none" =>
     LET entry(id) == rkPeers[CHOOSE i \in DOMAIN rkPeers : rkPeers[i].id = id]
         region == entry(rkList.peerId).region
         sameRegion(id) == entry(id).region = region
         l == rkList.peers
     IN \A i, j \in DOMAIN l :
           (/\ i < j
            /\ sameRegion(l[i]) = sameRegion(l[j])
            /\ entry(l[i]).lastSeen = entry(l[j]).lastSeen)
           => IdRank(l[i]) < IdRank(l[j])

\* C32: a share-file message that is answered with an error leaves the share
\* directory and every peer's file set unchanged.  No step that puts an
\* error on the wire creates or changes a share entry or a file set.
FailedPublishChangesNothing ==
  [][(\E m \in sent' : m.type = "error")
        => /\ fileShares' = fileShares
           /\ \A id \in DOMAIN peers :
                 id \in DOMAIN peers' /\ peers'[id].files = peers[id].files]_vars

\* C33: the disconnect of one connection removes only state owned by that
\* connection.  When socket A closes, no peer whose current socket is another
\* open socket is deleted, and no share owned by such a peer is deleted.
CloseRemovesOwnStateOnly ==
  [][\A a \in Conns :
        (sockets[a].readyState # "CLOSED" /\ sockets'[a].readyState = "CLOSED")
        => \A id \in DOMAIN peers :
              (peers[id].ws # a /\ sockets[peers[id].ws].readyState = "OPEN")
              => /\ id \in DOMAIN peers'
                 /\ \A s \in DOMAIN fileShares :
                       fileShares[s].peerId = id => s \in DOMAIN fileShares']_vars

\* C34: sender authenticity of relayed negotiation.  Every offer, answer or
\* ice-candidate put on the wire names as its sender a peer id registered
\* for the connection that sent it: an open socket whose ws.peerId is that
\* id exists when the message is handled.
RelayNamesItsSender ==
  [][\A m \in sent' :
        m.type \in RelayTypes
        => \E c \in Conns :
              sockets[c].readyState = "OPEN" /\ sockets[c].peerId = m.from]_vars

\* C35: room membership is stored consistently in both directions.  A room
\* id is in peer.rooms of a registered peer exactly when that peer's id is
\* in the member set of that room.
MembershipBothWays ==
  /\ \A id \in DOMAIN ssPeers : \A r \in Range(ssPeers[id].rooms) :
        r \in DOMAIN ssRooms /\ id \in Range(ssRooms[r])
  /\ \A r \in DOMAIN ssRooms : \A id \in Range(ssRooms[r]) :
        id \in DOMAIN ssPeers => r \in Range(ssPeers[id].rooms)

\* C35 witness: a peer has just left a room while a registered peer is still
\* a member of a room, stored in both directions
MembershipAfterLeave ==
  /\ ssReceived.type \in {"leave-room", "close"}
  /\ \E id \in DOMAIN ssPeers : \E r \in DOMAIN ssRooms :
        r \in Range(ssPeers[id].rooms) /\ id \in Range(ssRooms[r])

\* C36: downloads of the same share do not interfere.  The timer of one call
\* never removes the chunk callback of another call, and a call never
\* replaces the callback of a call whose promise is still pending.
DownloadsDoNotInterfere ==
  [][\A k \in DdCallIds :
       ddCallback = k =>
         /\ (\E j \in DdCallIds \ {k} :
                ddTimer[j] = "armed" /\ ddTimer'[j] = "fired")
               => ddCallback' = k
         /\ ddPromise[k] = "pending" => ddCallback' \in {k, NoCall}]_vars

\* C37: after the hook is torn down no new signaling connection is opened.
\* Once the cleanup has run, the hook makes no further WebSocket.
NoConnectionAfterTeardown ==
  [][rcMounted = "unmounted" => Len(rcSockets') = Len(rcSockets)]_vars

\* C38: createTransfer produces chunk sizes that are all non-negative and
\* sum to exactly fileSize, for every fileSize >= 0 and totalChunks >= 1,
\* and every chunk except the last has size floor(fileSize / totalChunks).
ChunkSizesSumToFileSize ==
  \A id \in DOMAIN transfersRef :
    LET transfer == transfersRef[id]
        totalChunks == ChunkCount(transfer.chunks)
        sizes == [i \in 1..totalChunks |-> transfer.chunks[i - 1].size]
    IN totalChunks >= 1 =>
         /\ \A i \in 1..totalChunks : sizes[i] >= 0
         /\ Sum(sizes) = transfer.fileSize
         /\ \A i \in 1..(totalChunks - 1) :
               sizes[i] = transfer.fileSize \div totalChunks

\* C38 witness: a file whose size is no multiple of the chunk count has been
\* cut into three chunks or more, the last one longer than the others
UnevenChunksCreated ==
  \E id \in DOMAIN transfersRef :
    LET transfer == transfersRef[id]
        totalChunks == ChunkCount(transfer.chunks)
    IN /\ totalChunks >= 3
       /\ transfer.fileSize % totalChunks # 0
       /\ transfer.chunks[totalChunks - 1].size > transfer.chunks[0].size
       /\ transfer.chunks[0].size > 0

\* C39: a transfer is recorded in history exactly once.  Each transfer id
\* appears at most once in completedTransfers, a transfer in history is no
\* longer in the active map, and the history never holds more than 50
\* entries.
HistoryHoldsEachOnce ==
  /\ \A i, j \in DOMAIN completedTransfers :
        completedTransfers[i].id = completedTransfers[j].id => i = j
  /\ \A i \in DOMAIN completedTransfers :
        /\ completedTransfers[i].id \notin DOMAIN transfersRef
        /\ completedTransfers[i].id \notin Range(activeTransfers)
  /\ Len(completedTransfers) <= HistoryKeep + 1

\* C39 witness: the history is full and has dropped its oldest entry, the
\* newest entry completed and an older one was cancelled
HistoryFullAndTurning ==
  /\ Len(completedTransfers) = HistoryKeep + 1
  /\ completedTransfers[1].id > HistoryKeep + 1
  /\ completedTransfers[1].status = "completed"
  /\ \E i \in DOMAIN completedTransfers : completedTransfers[i].status = "failed"

====
